---- MODULE Spec2Model ----
(***************************************************************************)
(* XYZ Gym management system, Part 4: the PySimpleGUI forms of gui.py over *)
(* the SQLite repository functions of file.py.                             *)
(*                                                                         *)
(* The store is the set of tables the statements of file.py read and       *)
(* write.  One action is one event read by a window's event loop together  *)
(* with everything its handler does before the next window.read().         *)
(***************************************************************************)
EXTENDS Integers, Sequences, FiniteSets, TLC

VARIABLES
    members,      \* Member table: memberID -> row
    payments,     \* Payment table: paymentID -> row
    classes,      \* Class table: classID -> row
    attends,      \* Attends table: <<memberID, classID>> -> attendanceDate
    equipment,    \* Equipment table: equipmentID -> row
    instructors,  \* Instructor table: the instructorIDs
    gyms,         \* GymFacility table: the gymIDs
    plans,        \* MembershipPlan table: the planIds
    window,       \* the window whose event loop is reading
    connection,   \* "none" | "open" | "closed"
    storeFaulty,  \* whether the store may reject a write statement (sqlite3.Error)
    popups,       \* the popups shown while handling the last event
    calls,        \* the file.py functions called while handling the last event
    cli           \* the run of the command-line program of Part 3

tables == <<members, payments, classes, attends, equipment, instructors, gyms, plans>>
vars == <<members, payments, classes, attends, equipment, instructors, gyms, plans,
          window, connection, storeFaulty, popups, calls, cli>>

----------------------------------------------------------------------------
(* Bounds of the model *)

MaxMemberId == 2
MaxPaymentId == 2
MaxClassId == 2
MaxEquipmentId == 2

----------------------------------------------------------------------------
(* Text.  A field of a form is a Python str: a sequence of code points.    *)
(* Names, emails and addresses are only tested for emptiness and equality  *)
(* and stay TLA+ strings.                                                  *)

Whitespace == {9, 10, 11, 12, 13, 32}
Digits == 48..57

RECURSIVE lstrip(_)
lstrip(s) == IF s # <<>> /\ Head(s) \in Whitespace THEN lstrip(Tail(s)) ELSE s

RECURSIVE rstrip(_)
rstrip(s) ==
    IF s # <<>> /\ s[Len(s)] \in Whitespace THEN rstrip(SubSeq(s, 1, Len(s) - 1)) ELSE s

\* str.strip()
strip(s) == rstrip(lstrip(s))

AllDigits(s) == s # <<>> /\ \A i \in 1..Len(s) : s[i] \in Digits

RECURSIVE DigitsValue(_)
DigitsValue(s) ==
    IF s = <<>> THEN 0
    ELSE 10 * DigitsValue(SubSeq(s, 1, Len(s) - 1)) + (s[Len(s)] - 48)

ValueError == [ok |-> FALSE, val |-> 0]

\* int(str): surrounding whitespace, an optional sign, decimal digits
int(s) ==
    LET t == strip(s)
        signed == t # <<>> /\ t[1] \in {43, 45}
        d == IF signed THEN Tail(t) ELSE t
    IN  IF AllDigits(d)
        THEN [ok |-> TRUE,
              val |-> IF signed /\ t[1] = 45 THEN 0 - DigitsValue(d) ELSE DigitsValue(d)]
        ELSE ValueError

\* float(str), for decimal notation with at most two fractional digits;
\* the value is kept in hundredths
float(s) ==
    LET t == strip(s)
        signed == t # <<>> /\ t[1] \in {43, 45}
        d == IF signed THEN Tail(t) ELSE t
        dots == {i \in 1..Len(d) : d[i] = 46}
        dot == IF dots = {} THEN Len(d) + 1 ELSE CHOOSE i \in dots : TRUE
        whole == SubSeq(d, 1, dot - 1)
        frac == SubSeq(d, dot + 1, Len(d))
        wellFormed == /\ Cardinality(dots) <= 1
                      /\ whole \o frac # <<>>
                      /\ \A i \in 1..Len(whole) : whole[i] \in Digits
                      /\ \A i \in 1..Len(frac) : frac[i] \in Digits
                      /\ Len(frac) <= 2
        hundredths == 100 * DigitsValue(whole)
                      + (IF Len(frac) = 1 THEN 10 ELSE 1) * DigitsValue(frac)
    IN  IF wellFormed
        THEN [ok |-> TRUE,
              val |-> IF signed /\ t[1] = 45 THEN 0 - hundredths ELSE hundredths]
        ELSE ValueError

\* a < b on Python strings (by code point, a proper prefix is smaller)
RECURSIVE StrLess(_, _)
StrLess(a, b) ==
    IF b = <<>> THEN FALSE
    ELSE IF a = <<>> THEN TRUE
    ELSE IF Head(a) # Head(b) THEN Head(a) < Head(b)
    ELSE StrLess(Tail(a), Tail(b))

\* what the user types for a number and for a date
RECURSIVE IntText(_)
IntText(n) == IF n < 10 THEN <<48 + n>> ELSE IntText(n \div 10) \o <<48 + (n % 10)>>

Pad2(n) == IF n < 10 THEN <<48>> \o IntText(n) ELSE IntText(n)
DateText(y, m, d) == IntText(y) \o <<45>> \o Pad2(m) \o <<45>> \o Pad2(d)

None == [some |-> FALSE, val |-> 0]
Some(n) == [some |-> TRUE, val |-> n]

Popup(text, arg) == [text |-> text, arg |-> arg]
Call(fn, args, ret) == [fn |-> fn, args |-> args, ret |-> ret, raised |-> ""]
\* a call of a function that writes: `committed` is whether connection.commit()
\* ran before it returned
Write(fn, args, result) ==
    [fn |-> fn, args |-> args, ret |-> result.ret, raised |-> "",
     committed |-> result.committed]
\* a call that ended in the exception e
Raised(fn, args, e) == [fn |-> fn, args |-> args, ret |-> FALSE, raised |-> e]

\* gui.is_integer: the value returned, and the popup it shows
is_integer(input) ==
    IF strip(input) = <<>> THEN None
    ELSE IF int(input).ok THEN Some(int(input).val)
    ELSE None

is_integer_popups(input, input_field_name) ==
    IF strip(input) = <<>>
    THEN <<Popup("ERROR: The {input_field_name} field cannot be empty.", input_field_name)>>
    ELSE IF int(input).ok THEN <<>>
    ELSE <<Popup("ERROR: Only integer numbers allowed in {input_field_name} field.",
                 input_field_name)>>

\* gui.is_float
is_float(input) ==
    IF strip(input) = <<>> THEN None
    ELSE IF float(input).ok THEN Some(float(input).val)
    ELSE None

is_float_popups(input, input_field_name) ==
    IF strip(input) = <<>>
    THEN <<Popup("ERROR: The {input_field_name} field cannot be empty.", input_field_name)>>
    ELSE IF float(input).ok THEN <<>>
    ELSE <<Popup("ERROR: Only decimal numbers allowed in {input_field_name} field.",
                 input_field_name)>>

----------------------------------------------------------------------------
(* The store.  A table is a function from the key to the row.  SQLite does *)
(* not enforce foreign keys unless a connection asks for it, and file.py   *)
(* never does.                                                             *)

Insert(table, id, row) == (id :> row) @@ table
Delete(table, id) == [i \in DOMAIN table \ {id} |-> table[i]]

\* the rowids the store may give a new row: above every rowid in the table
\* (max + 1, or later still when the key is AUTOINCREMENT and rows were deleted)
NewRowIds(table, maxId) == {i \in 1..maxId : \A j \in DOMAIN table : i > j}

\* whether a statement may be rejected by the store
StoreOutcomes == IF storeFaulty THEN BOOLEAN ELSE {TRUE}

\* how a call of a function ends: it returns a value or raises an exception
Returns(v) == [raised |-> "", ret |-> v]
Raises(e) == [raised |-> e, ret |-> FALSE]

\* try: ... return cursor.fetchone() is not None
\* except sqlite3.Error: ... return False
OrFalse(ok, found) == ok /\ found

\* file.execute_query: the rows, or None when the statement is rejected (the
\* except branch prints and falls off the end of the function)
execute_query(ok, results) == IF ok THEN Some(results) ELSE None

----------------------------------------------------------------------------
(* file.py: member functions.  Each takes the table the statement works on *)
(* and what the store answers, and gives the table after and the value     *)
(* returned.  Python's False is the integer 0 where a function returns an  *)
(* id or False.                                                            *)

MemberRow(name, email, phone, address, age, membershipStartDate, membershipEndDate) ==
    [name |-> name, email |-> email, phone |-> phone, address |-> address, age |-> age,
     membershipStartDate |-> membershipStartDate, membershipEndDate |-> membershipEndDate]

file_add_member(Member, ok, lastrowid, name, email, phone, address, age, membershipStartDate, membershipEndDate) ==
    IF ok
    THEN [table |-> Insert(Member, lastrowid,
                           MemberRow(name, email, phone, address, age,
                                     membershipStartDate, membershipEndDate)),
          ret |-> lastrowid, committed |-> TRUE]
    ELSE [table |-> Member, ret |-> 0, committed |-> FALSE]

PaymentRow(memberID, planID, amountPaid, paymentDate) ==
    [memberID |-> memberID, planID |-> planID, amountPaid |-> amountPaid,
     paymentDate |-> paymentDate]

\* an add_payment that returns without connection.commit()
file_add_payment_uncommitted(Payment, ok, lastrowid, memberID, planID, amountPaid, paymentDate) ==
    IF ok
    THEN [table |-> Insert(Payment, lastrowid,
                           PaymentRow(memberID, planID, amountPaid, paymentDate)),
          ret |-> TRUE, committed |-> FALSE]
    ELSE [table |-> Payment, ret |-> FALSE, committed |-> FALSE]

file_add_payment(Payment, ok, lastrowid, memberID, planID, amountPaid, paymentDate) ==
    IF ok
    THEN [table |-> Insert(Payment, lastrowid,
                           PaymentRow(memberID, planID, amountPaid, paymentDate)),
          ret |-> TRUE, committed |-> TRUE]
    ELSE [table |-> Payment, ret |-> FALSE, committed |-> FALSE]

file_update_member(Member, ok, member_id, name, email, phone, address, age, start_date, end_date) ==
    IF ok
    THEN [table |-> [i \in DOMAIN Member |->
                        IF i = member_id
                        THEN MemberRow(name, email, phone, address, age, start_date, end_date)
                        ELSE Member[i]],
          ret |-> TRUE, committed |-> TRUE]
    ELSE [table |-> Member, ret |-> FALSE, committed |-> FALSE]

file_member_exists(Member, member_id) == member_id \in DOMAIN Member

\* a delete_member whose DELETE removes no row
file_delete_member_keeps_row(Member, ok, member_id) ==
    [table |-> Member, ret |-> ok, committed |-> ok]

file_delete_member(Member, ok, member_id) ==
    IF ok
    THEN [table |-> Delete(Member, member_id), ret |-> TRUE, committed |-> TRUE]
    ELSE [table |-> Member, ret |-> FALSE, committed |-> FALSE]

\* a check_email_exists that finds no row
file_check_email_exists_none(Member, email) == FALSE

file_check_email_exists(Member, email) == \E i \in DOMAIN Member : Member[i].email = email

\* file.check_email_exists: len() of what execute_query returned; len(None)
\* raises TypeError
check_email_exists(ok, Member, email) ==
    LET result == execute_query(ok, {i \in DOMAIN Member : Member[i].email = email})
    IN  IF result.some THEN Returns(file_check_email_exists(Member, email))
        ELSE Raises("TypeError")

file_membership_plan_exists(MembershipPlan, mempership_id) == mempership_id \in MembershipPlan

file_get_all_membership_plan_ids(MembershipPlan) == MembershipPlan

----------------------------------------------------------------------------
(* gui.py: what a handler leaves behind *)

\* the handler showed `ps`, called `cs`, and the window reads again (continue)
Continue(ps, cs) == popups' = ps /\ calls' = cs /\ window' = window /\ cli' = cli

\* the handler showed `ps`, called `cs`, and the form closed (break): the
\* menu that opened it reads again
Break(ps, cs, menu) == popups' = ps /\ calls' = cs /\ window' = menu /\ cli' = cli

\* an exception no handler catches: the process ends with a traceback
Uncaught(e, ps, cs) ==
    /\ window' = "crashed"
    /\ popups' = ps \o <<Popup("Traceback (most recent call last):", e)>>
    /\ calls' = cs
    /\ cli' = cli

\* a variant in which closing a form also closes the connection
Cancel_closes_connection(form, menu) ==
    /\ window = form
    /\ popups' = <<>> /\ calls' = <<>> /\ window' = menu
    /\ connection' = "closed"
    /\ UNCHANGED <<tables, storeFaulty, cli>>

\* Cancel or the window closed: the form closes, nothing is called
Cancel(form, menu) ==
    /\ window = form
    /\ popups' = <<>> /\ calls' = <<>> /\ window' = menu
    /\ UNCHANGED <<tables, connection, storeFaulty, cli>>

----------------------------------------------------------------------------
(* gui.add_new_member *)

\* gui.py:151
add_new_member_age_rejected(age) == age < 15

\* the date check with > in place of >=
add_new_member_dates_rejected_gt(start_date, end_date) == StrLess(end_date, start_date)

\* gui.py:156
add_new_member_dates_rejected(start_date, end_date) == ~StrLess(start_date, end_date)

\* gui.py:174-177
add_new_member_all_filled(name, email, phone, address, age, plan_id, amount_paid, start_date, end_date, payment_date) ==
    /\ name # "" /\ email # "" /\ phone # 0 /\ address # "" /\ age # 0
    /\ plan_id # 0 /\ amount_paid # 0
    /\ start_date # <<>> /\ end_date # <<>> /\ payment_date # <<>>

add_new_member_Submit(values) ==
    /\ window = "Add New Member"
    /\ UNCHANGED <<classes, attends, equipment, instructors, gyms, plans,
                   connection, storeFaulty>>
    /\ LET name == values.NAME
           email == values.EMAIL
           phone == is_integer(values.PHONE)
           address == values.ADDRESS
           age == is_integer(values.AGE)
           start_date == values.START
           end_date == values.END
           plan_id == is_integer(values.PLANID)
           amount_paid == is_float(values.AMOUNT)
           payment_date == values.PAYDATE
           parsePopups == is_integer_popups(values.PHONE, "phone number")
                          \o is_integer_popups(values.AGE, "age")
                          \o is_integer_popups(values.PLANID, "plan id")
                          \o is_float_popups(values.AMOUNT, "payment")
       IN  IF ~age.some \/ ~phone.some \/ ~plan_id.some \/ ~amount_paid.some
           THEN Continue(parsePopups, <<>>) /\ UNCHANGED <<members, payments>>
           ELSE IF add_new_member_age_rejected(age.val)
           THEN /\ Continue(<<Popup("Age must be 15 or older.", "")>>, <<>>)
                /\ UNCHANGED <<members, payments>>
           ELSE IF add_new_member_dates_rejected(start_date, end_date)
           THEN /\ Continue(<<Popup("End date must be later than start date.", "")>>, <<>>)
                /\ UNCHANGED <<members, payments>>
           ELSE \E ok_email \in StoreOutcomes, ok_plan \in StoreOutcomes, ok_ids \in StoreOutcomes :
                LET found == check_email_exists(ok_email, members, email)
                    c_email == Call("check_email_exists", <<email>>, found.ret)
                    c_plan == Call("membership_plan_exists", <<plan_id.val>>,
                                   OrFalse(ok_plan,
                                           file_membership_plan_exists(plans, plan_id.val)))
                    ids == execute_query(ok_ids, file_get_all_membership_plan_ids(plans))
                    c_ids == Call("get_all_membership_plan_ids", <<>>, ids)
                IN  IF found.raised # ""
                    THEN /\ Uncaught(found.raised, <<>>,
                                     <<Raised("check_email_exists", <<email>>, found.raised)>>)
                         /\ UNCHANGED <<members, payments>>
                    ELSE IF c_email.ret
                    THEN /\ Continue(<<Popup("This email is already associated with an existing member.",
                                             "")>>, <<c_email>>)
                         /\ UNCHANGED <<members, payments>>
                    ELSE IF ~c_plan.ret
                    THEN /\ UNCHANGED <<members, payments>>
                         /\ IF ids.some
                            THEN Continue(<<Popup("Please enter a valid membership plan id. Options: \n",
                                                  ids.val)>>, <<c_email, c_plan, c_ids>>)
                            \* list(None) raises TypeError
                            ELSE Uncaught("TypeError", <<>>, <<c_email, c_plan, c_ids>>)
                    ELSE IF ~add_new_member_all_filled(name, email, phone.val, address, age.val,
                                                       plan_id.val, amount_paid.val,
                                                       start_date, end_date, payment_date)
                    THEN /\ Continue(<<Popup("Please fill in all fields.", "")>>, <<c_email, c_plan>>)
                         /\ UNCHANGED <<members, payments>>
                    ELSE \E ok1 \in StoreOutcomes, rowid1 \in NewRowIds(members, MaxMemberId) :
                         LET m == file_add_member(members, ok1, rowid1, name, email, phone.val,
                                                  address, age.val, start_date, end_date)
                             member_id == m.ret
                             c_add == Write("add_member",
                                           <<name, email, phone.val, address, age.val,
                                             start_date, end_date>>, m)
                         IN  /\ members' = m.table
                             /\ IF member_id # 0
                                THEN \E ok2 \in StoreOutcomes,
                                        rowid2 \in NewRowIds(payments, MaxPaymentId) :
                                     LET p == file_add_payment(payments, ok2, rowid2, member_id,
                                                               plan_id.val, amount_paid.val,
                                                               payment_date)
                                         c_pay == Write("add_payment",
                                                       <<member_id, plan_id.val, amount_paid.val,
                                                         payment_date>>, p)
                                     IN  /\ payments' = p.table
                                         /\ IF p.ret
                                            THEN Break(<<Popup("Member and payment added successfully!",
                                                               "")>>,
                                                       <<c_email, c_plan, c_add, c_pay>>,
                                                       "Members Menu")
                                            ELSE Continue(<<Popup("Member added but payment failed.",
                                                                  "")>>,
                                                          <<c_email, c_plan, c_add, c_pay>>)
                                ELSE /\ payments' = payments
                                     /\ Continue(<<Popup("Failed to add member.", "")>>,
                                                 <<c_email, c_plan, c_add>>)

add_new_member_Cancel == Cancel("Add New Member", "Members Menu")

----------------------------------------------------------------------------
(* gui.update_member *)

\* the age check with 14 in place of 15
update_member_age_rejected_14(age) == age < 14

\* gui.py:254
update_member_age_rejected(age) == age < 15

update_member_Update(values) ==
    /\ window = "Update Member"
    /\ UNCHANGED <<payments, classes, attends, equipment, instructors, gyms, plans,
                   connection, storeFaulty>>
    /\ \E ok_exists \in StoreOutcomes :
       LET id == int(values.ID)
           member_id == id.val
           name == values.NAME
           email == values.EMAIL
           phone == is_integer(values.PHONE)
           address == values.ADDRESS
           age == is_integer(values.AGE)
           start_date == values.START
           end_date == values.END
           c_exists == Call("member_exists", <<member_id>>,
                            OrFalse(ok_exists, file_member_exists(members, member_id)))
       IN  IF ~id.ok
           THEN /\ Break(<<Popup("Error: {e}", "ValueError")>>, <<>>, "Members Menu")
                /\ UNCHANGED members
           ELSE IF ~c_exists.ret
           THEN /\ Continue(<<Popup("No member found with that ID.", "")>>, <<c_exists>>)
                /\ UNCHANGED members
           ELSE IF ~phone.some \/ ~age.some
           THEN /\ Continue(is_integer_popups(values.PHONE, "phone number")
                            \o is_integer_popups(values.AGE, "age"), <<c_exists>>)
                /\ UNCHANGED members
           ELSE IF update_member_age_rejected(age.val)
           THEN /\ Continue(<<Popup("Age must be 15 or older.", "")>>, <<c_exists>>)
                /\ UNCHANGED members
           ELSE \E ok \in StoreOutcomes :
                LET u == file_update_member(members, ok, member_id, name, email, phone.val,
                                            address, age.val, start_date, end_date)
                    c_update == Write("update_member",
                                     <<member_id, name, email, phone.val, address, age.val,
                                       start_date, end_date>>, u)
                IN  /\ members' = u.table
                    /\ Break(<<IF u.ret THEN Popup("Member updated successfully!", "")
                                        ELSE Popup("Failed to update member.", "")>>,
                             <<c_exists, c_update>>, "Members Menu")

update_member_Cancel == Cancel("Update Member", "Members Menu")

----------------------------------------------------------------------------
(* gui.delete_member *)

\* a variant that deletes whatever the answer to the confirmation is
delete_member_Delete_unconfirmed(values, confirm) ==
    /\ window = "Delete Member"
    /\ UNCHANGED <<payments, classes, attends, equipment, instructors, gyms, plans,
                   connection, storeFaulty>>
    /\ \E ok_exists \in StoreOutcomes :
       LET id == int(values.ID)
           member_id == id.val
           c_exists == Call("member_exists", <<member_id>>,
                            OrFalse(ok_exists, file_member_exists(members, member_id)))
           ask == Popup("Are you sure you want to delete this member?", confirm)
       IN  IF ~id.ok
           THEN /\ Break(<<Popup("Invalid ID.", "")>>, <<>>, "Members Menu")
                /\ UNCHANGED members
           ELSE IF ~c_exists.ret
           THEN /\ Continue(<<Popup("No member found with that ID.", "")>>, <<c_exists>>)
                /\ UNCHANGED members
           ELSE \E ok \in StoreOutcomes :
                LET d == file_delete_member(members, ok, member_id)
                    c_delete == Write("delete_member", <<member_id>>, d)
                IN  /\ members' = d.table
                    /\ Break(<<ask, IF d.ret THEN Popup("Member deleted successfully.", "")
                                             ELSE Popup("Failed to delete member.", "")>>,
                             <<c_exists, c_delete>>, "Members Menu")

delete_member_Delete(values, confirm) ==
    /\ window = "Delete Member"
    /\ UNCHANGED <<payments, classes, attends, equipment, instructors, gyms, plans,
                   connection, storeFaulty>>
    /\ \E ok_exists \in StoreOutcomes :
       LET id == int(values.ID)
           member_id == id.val
           c_exists == Call("member_exists", <<member_id>>,
                            OrFalse(ok_exists, file_member_exists(members, member_id)))
           ask == Popup("Are you sure you want to delete this member?", confirm)
       IN  IF ~id.ok
           THEN /\ Break(<<Popup("Invalid ID.", "")>>, <<>>, "Members Menu")
                /\ UNCHANGED members
           ELSE IF ~c_exists.ret
           THEN /\ Continue(<<Popup("No member found with that ID.", "")>>, <<c_exists>>)
                /\ UNCHANGED members
           ELSE IF confirm # "Yes"
           THEN /\ Break(<<ask>>, <<c_exists>>, "Members Menu")
                /\ UNCHANGED members
           ELSE \E ok \in StoreOutcomes :
                LET d == file_delete_member(members, ok, member_id)
                    c_delete == Write("delete_member", <<member_id>>, d)
                IN  /\ members' = d.table
                    /\ Break(<<ask, IF d.ret THEN Popup("Member deleted successfully.", "")
                                             ELSE Popup("Failed to delete member.", "")>>,
                             <<c_exists, c_delete>>, "Members Menu")

delete_member_Cancel == Cancel("Delete Member", "Members Menu")

----------------------------------------------------------------------------
(* file.py: class functions *)

ClassRow(className, classType, duration, classCapacity, instructorID, gymID) ==
    [className |-> className, classType |-> classType, duration |-> duration,
     classCapacity |-> classCapacity, instructorID |-> instructorID, gymID |-> gymID]

\* an add_class whose INSERT names duration and classCapacity in the other order
file_add_class_swapped(Class, ok, lastrowid, className, classType, duration, classCapacity, instructorID, gymID) ==
    IF ok
    THEN [table |-> Insert(Class, lastrowid,
                           ClassRow(className, classType, classCapacity, duration,
                                    instructorID, gymID)),
          ret |-> lastrowid, committed |-> TRUE]
    ELSE [table |-> Class, ret |-> 0, committed |-> FALSE]

file_add_class(Class, ok, lastrowid, className, classType, duration, classCapacity, instructorID, gymID) ==
    IF ok
    THEN [table |-> Insert(Class, lastrowid,
                           ClassRow(className, classType, duration, classCapacity,
                                    instructorID, gymID)),
          ret |-> lastrowid, committed |-> TRUE]
    ELSE [table |-> Class, ret |-> 0, committed |-> FALSE]

\* an update_class whose SET list leaves instructorID out
file_update_class_keeps_instructor(Class, ok, classID, className, classType, duration, classCapacity, instructorID, gymID) ==
    IF ok
    THEN [table |-> [i \in DOMAIN Class |->
                        IF i = classID
                        THEN ClassRow(className, classType, duration, classCapacity,
                                      Class[i].instructorID, gymID)
                        ELSE Class[i]],
          ret |-> TRUE, committed |-> TRUE]
    ELSE [table |-> Class, ret |-> FALSE, committed |-> FALSE]

file_update_class(Class, ok, classID, className, classType, duration, classCapacity, instructorID, gymID) ==
    IF ok
    THEN [table |-> [i \in DOMAIN Class |->
                        IF i = classID
                        THEN ClassRow(className, classType, duration, classCapacity,
                                      instructorID, gymID)
                        ELSE Class[i]],
          ret |-> TRUE, committed |-> TRUE]
    ELSE [table |-> Class, ret |-> FALSE, committed |-> FALSE]

\* returns cursor.rowcount > 0
file_delete_class(Class, ok, class_id) ==
    IF ok
    THEN [table |-> Delete(Class, class_id), ret |-> class_id \in DOMAIN Class, committed |-> TRUE]
    ELSE [table |-> Class, ret |-> FALSE, committed |-> FALSE]

\* the rows of SELECT classID, className, ... FROM Class
file_get_all_classes(Class) ==
    {<<i, Class[i].className, Class[i].classType, Class[i].duration,
       Class[i].classCapacity, Class[i].instructorID, Class[i].gymID>> : i \in DOMAIN Class}

\* SELECT COUNT(*) FROM Attends WHERE classID = ?  is above 0
file_class_has_members(Attends, class_id) == \E k \in DOMAIN Attends : k[2] = class_id

\* file.class_has_members has no try: a rejected SELECT raises sqlite3.Error
class_has_members(ok, Attends, class_id) ==
    IF ok THEN Returns(file_class_has_members(Attends, class_id))
    ELSE Raises("sqlite3.Error")

\* the key of Attends is (memberID, classID): the UPDATE of move_members is
\* rejected when it would give a member two rows for the new class
AttendsKeyViolated(Attends, old_classID, new_classID) ==
    /\ new_classID # old_classID
    /\ \E k \in DOMAIN Attends : k[2] = old_classID /\ <<k[1], new_classID>> \in DOMAIN Attends

\* UPDATE Attends SET classID = new WHERE classID = old; returns rowcount > 0
file_move_members(Attends, ok, old_classID, new_classID) ==
    LET moved == {k \in DOMAIN Attends : k[2] = old_classID}
        kept == DOMAIN Attends \ moved
    IN  IF ok /\ ~AttendsKeyViolated(Attends, old_classID, new_classID)
        THEN [table |-> [k \in kept \cup {<<m[1], new_classID>> : m \in moved} |->
                            IF k[2] = new_classID /\ <<k[1], old_classID>> \in moved
                            THEN Attends[<<k[1], old_classID>>]
                            ELSE Attends[k]],
              ret |-> moved # {}, committed |-> TRUE]
        ELSE [table |-> Attends, ret |-> FALSE, committed |-> FALSE]

file_class_exists(Class, class_id) == class_id \in DOMAIN Class

file_instructor_exists(Instructor, instructor_id) == instructor_id \in Instructor

file_gym_exists(GymFacility, gym_id) == gym_id \in GymFacility

----------------------------------------------------------------------------
(* gui.add_class *)

\* an exception no handler catches ends the process with a traceback
Crash ==
    /\ window' = "crashed"
    /\ popups' = <<>> /\ calls' = <<>>
    /\ cli' = cli

ClassTypes == {"Yoga", "Zumba", "HIIT", "Weights"}

add_class_Submit(values) ==
    /\ window = "Add New Class"
    /\ UNCHANGED <<members, payments, attends, equipment, instructors, gyms, plans,
                   connection, storeFaulty>>
    /\ \E ok_instructor \in StoreOutcomes, ok_gym \in StoreOutcomes :
       LET name == values.NAME
           class_type == values.TYPE
           duration == int(values.DURATION)
           capacity == int(values.CAPACITY)
           instructor_id == int(values.INSTRUCTORID)
           gym_id == int(values.GYMID)
           c_instructor == Call("instructor_exists", <<instructor_id.val>>,
                                OrFalse(ok_instructor,
                                        file_instructor_exists(instructors, instructor_id.val)))
           c_gym == Call("gym_exists", <<gym_id.val>>,
                         OrFalse(ok_gym, file_gym_exists(gyms, gym_id.val)))
       IN  IF ~duration.ok \/ ~capacity.ok \/ ~instructor_id.ok \/ ~gym_id.ok
           THEN Crash /\ UNCHANGED classes
           ELSE IF name = ""
           THEN /\ Continue(<<Popup("Class name cannot be empty.", "")>>, <<>>)
                /\ UNCHANGED classes
           ELSE IF class_type \notin ClassTypes
           THEN /\ Continue(<<Popup("Class type must be one of: Yoga, Zumba, HIIT, Weights.",
                                    "")>>, <<>>)
                /\ UNCHANGED classes
           ELSE IF duration.val <= 0
           THEN /\ Continue(<<Popup("Duration must be a positive integer.", "")>>, <<>>)
                /\ UNCHANGED classes
           ELSE IF capacity.val <= 0
           THEN /\ Continue(<<Popup("Class capacity must be a positive integer.", "")>>, <<>>)
                /\ UNCHANGED classes
           ELSE IF ~c_instructor.ret
           THEN /\ Continue(<<Popup("Instructor ID {instructor_id} does not exist.",
                                    instructor_id.val)>>, <<c_instructor>>)
                /\ UNCHANGED classes
           ELSE IF ~c_gym.ret
           THEN /\ Continue(<<Popup("Gym ID {gym_id} does not exist.", gym_id.val)>>,
                            <<c_instructor, c_gym>>)
                /\ UNCHANGED classes
           ELSE \E ok \in StoreOutcomes, rowid \in NewRowIds(classes, MaxClassId) :
                LET a == file_add_class(classes, ok, rowid, name, class_type, duration.val,
                                        capacity.val, instructor_id.val, gym_id.val)
                    c_add == Write("add_class",
                                  <<name, class_type, duration.val, capacity.val,
                                    instructor_id.val, gym_id.val>>, a)
                IN  /\ classes' = a.table
                    /\ IF a.ret # 0
                       THEN Break(<<Popup("Class added successfully!", "")>>,
                                  <<c_instructor, c_gym, c_add>>, "Classes Menu")
                       ELSE Continue(<<Popup("Failed to add class.", "")>>,
                                     <<c_instructor, c_gym, c_add>>)

add_class_Cancel == Cancel("Add New Class", "Classes Menu")

----------------------------------------------------------------------------
(* gui.update_class *)

update_class_Update(values) ==
    /\ window = "Update Class"
    /\ UNCHANGED <<members, payments, attends, equipment, instructors, gyms, plans,
                   connection, storeFaulty>>
    /\ \E ok_exists \in StoreOutcomes :
       LET id == int(values.ID)
           class_id == id.val
           name == values.NAME
           class_type == values.TYPE
           duration == int(values.DURATION)
           capacity == int(values.CAPACITY)
           instructor_id == int(values.INSTRUCTORID)
           gym_id == int(values.GYMID)
           c_exists == Call("class_exists", <<class_id>>,
                            OrFalse(ok_exists, file_class_exists(classes, class_id)))
       IN  IF ~id.ok
           THEN /\ Break(<<Popup("Error: {e}", "ValueError")>>, <<>>, "Classes Menu")
                /\ UNCHANGED classes
           ELSE IF ~c_exists.ret
           THEN /\ Continue(<<Popup("No class found with that ID.", "")>>, <<c_exists>>)
                /\ UNCHANGED classes
           ELSE IF ~duration.ok \/ ~capacity.ok \/ ~instructor_id.ok \/ ~gym_id.ok
           THEN /\ Break(<<Popup("Error: {e}", "ValueError")>>, <<c_exists>>, "Classes Menu")
                /\ UNCHANGED classes
           ELSE \E ok \in StoreOutcomes :
                LET u == file_update_class(classes, ok, class_id, name, class_type,
                                           duration.val, capacity.val, instructor_id.val,
                                           gym_id.val)
                    c_update == Write("update_class",
                                     <<class_id, name, class_type, duration.val, capacity.val,
                                       instructor_id.val, gym_id.val>>, u)
                IN  /\ classes' = u.table
                    /\ Break(<<IF u.ret THEN Popup("Class updated successfully!", "")
                                        ELSE Popup("Failed to update class.", "")>>,
                             <<c_exists, c_update>>, "Classes Menu")

update_class_Cancel == Cancel("Update Class", "Classes Menu")

----------------------------------------------------------------------------
(* gui.delete_class *)

\* what sg.popup_get_text gives when the user cancels it
NoText == [cancelled |-> TRUE, text |-> <<>>]
Typed(text) == [cancelled |-> FALSE, text |-> text]

delete_class_Delete(values, new_class_id) ==
    /\ window = "Delete Class"
    /\ UNCHANGED <<members, payments, equipment, instructors, gyms, plans,
                   connection, storeFaulty>>
    /\ \E ok_exists \in StoreOutcomes, ok_has \in StoreOutcomes :
       LET id == int(values.ID)
           class_id == id.val
           c_exists == Call("class_exists", <<class_id>>,
                            OrFalse(ok_exists, file_class_exists(classes, class_id)))
           has == class_has_members(ok_has, attends, class_id)
           c_has == Call("class_has_members", <<class_id>>, has.ret)
           ask == Popup("Enter a new class ID to move members to:", new_class_id)
           target == int(new_class_id.text)
       IN  IF ~id.ok
           THEN /\ Break(<<Popup("Error: {e}", "ValueError")>>, <<>>, "Classes Menu")
                /\ UNCHANGED <<classes, attends>>
           ELSE IF ~c_exists.ret
           THEN /\ Continue(<<Popup("No class found with that ID.", "")>>, <<c_exists>>)
                /\ UNCHANGED <<classes, attends>>
           ELSE IF has.raised # ""
           THEN /\ Break(<<Popup("Error: {e}", has.raised)>>,
                         <<c_exists, Raised("class_has_members", <<class_id>>, has.raised)>>,
                         "Classes Menu")
                /\ UNCHANGED <<classes, attends>>
           ELSE IF c_has.ret
           THEN IF new_class_id.cancelled \/ new_class_id.text = <<>>
                THEN /\ Break(<<ask, Popup("No valid class selected to move members to.", "")>>,
                              <<c_exists, c_has>>, "Classes Menu")
                     /\ UNCHANGED <<classes, attends>>
                ELSE IF ~target.ok
                THEN /\ Break(<<ask, Popup("Error: {e}", "ValueError")>>,
                              <<c_exists, c_has>>, "Classes Menu")
                     /\ UNCHANGED <<classes, attends>>
                ELSE \E ok1 \in StoreOutcomes :
                     LET mv == file_move_members(attends, ok1, class_id, target.val)
                         c_move == Write("move_members", <<class_id, target.val>>, mv)
                     IN  /\ attends' = mv.table
                         /\ IF mv.ret
                            THEN \E ok2 \in StoreOutcomes :
                                 LET d == file_delete_class(classes, ok2, class_id)
                                     c_delete == Write("delete_class", <<class_id>>, d)
                                 IN  /\ classes' = d.table
                                     /\ Break(<<ask,
                                                Popup("Members moved successfully. Deleting class now...", ""),
                                                IF d.ret
                                                THEN Popup("Class deleted succesfully!", "")
                                                ELSE Popup("Failed to delete the class.", "")>>,
                                              <<c_exists, c_has, c_move, c_delete>>,
                                              "Classes Menu")
                            ELSE /\ classes' = classes
                                 /\ Break(<<ask, Popup("No valid class selected to move members to.", "")>>,
                                          <<c_exists, c_has, c_move>>, "Classes Menu")
           ELSE \E ok \in StoreOutcomes :
                LET d == file_delete_class(classes, ok, class_id)
                    c_delete == Write("delete_class", <<class_id>>, d)
                IN  /\ classes' = d.table
                    /\ attends' = attends
                    /\ Break(<<IF d.ret THEN Popup("Class deleted successfully!", "")
                                        ELSE Popup("Failed to delete the class.", "")>>,
                             <<c_exists, c_has, c_delete>>, "Classes Menu")

delete_class_Cancel == Cancel("Delete Class", "Classes Menu")

----------------------------------------------------------------------------
(* file.py: equipment functions.  The type of a piece of equipment is the  *)
(* column classType of Equipment.                                          *)

EquipmentRow(name, classType, quantity, gymID) ==
    [name |-> name, classType |-> classType, quantity |-> quantity, gymID |-> gymID]

\* an add_equipment that returns cursor.rowcount
file_add_equipment_returns_rowcount(Equipment, ok, lastrowid, equipmentName, equipmentType, quantity, gymID) ==
    IF ok
    THEN [table |-> Insert(Equipment, lastrowid,
                           EquipmentRow(equipmentName, equipmentType, quantity, gymID)),
          ret |-> 1, committed |-> TRUE]
    ELSE [table |-> Equipment, ret |-> 0, committed |-> FALSE]

file_add_equipment(Equipment, ok, lastrowid, equipmentName, equipmentType, quantity, gymID) ==
    IF ok
    THEN [table |-> Insert(Equipment, lastrowid,
                           EquipmentRow(equipmentName, equipmentType, quantity, gymID)),
          ret |-> lastrowid, committed |-> TRUE]
    ELSE [table |-> Equipment, ret |-> 0, committed |-> FALSE]

file_update_equipment(Equipment, ok, equipmentID, equipmentName, equipmentType, quantity, gymID) ==
    IF ok
    THEN [table |-> [i \in DOMAIN Equipment |->
                        IF i = equipmentID
                        THEN EquipmentRow(equipmentName, equipmentType, quantity, gymID)
                        ELSE Equipment[i]],
          ret |-> TRUE, committed |-> TRUE]
    ELSE [table |-> Equipment, ret |-> FALSE, committed |-> FALSE]

file_delete_equipment(Equipment, ok, equipment_id) ==
    IF ok
    THEN [table |-> Delete(Equipment, equipment_id), ret |-> TRUE, committed |-> TRUE]
    ELSE [table |-> Equipment, ret |-> FALSE, committed |-> FALSE]

file_equipment_exists(Equipment, equipment_id) == equipment_id \in DOMAIN Equipment

\* the rows of SELECT * FROM Equipment
file_get_all_equipment(Equipment) ==
    {<<i, Equipment[i].name, Equipment[i].classType, Equipment[i].quantity,
       Equipment[i].gymID>> : i \in DOMAIN Equipment}

----------------------------------------------------------------------------
(* gui.add_equipment *)

EquipmentTypes == {"Cardio", "Strength", "Flexibility", "Recovery"}

add_equipment_Submit(values) ==
    /\ window = "Add New Equipment"
    /\ UNCHANGED <<members, payments, classes, attends, instructors, gyms, plans,
                   connection, storeFaulty>>
    /\ \E ok_gym \in StoreOutcomes :
       LET name == values.NAME
           equipment_type == values.TYPE
           quantity == int(values.QUANTITY)
           gym_id == int(values.GYMID)
           c_gym == Call("gym_exists", <<gym_id.val>>,
                         OrFalse(ok_gym, file_gym_exists(gyms, gym_id.val)))
       IN  IF ~quantity.ok \/ ~gym_id.ok
           THEN Crash /\ UNCHANGED equipment
           ELSE IF name = ""
           THEN /\ Continue(<<Popup("Equipment name cannot be empty.", "")>>, <<>>)
                /\ UNCHANGED equipment
           ELSE IF equipment_type \notin EquipmentTypes
           THEN /\ Continue(<<Popup("Class type must be one of: Cardio, Strength, Flexibility, Recovery.",
                                    "")>>, <<>>)
                /\ UNCHANGED equipment
           ELSE IF quantity.val <= 0
           THEN /\ Continue(<<Popup("Quantity must be a positive integer.", "")>>, <<>>)
                /\ UNCHANGED equipment
           ELSE IF ~c_gym.ret
           THEN /\ Continue(<<Popup("Gym ID {gym_id} does not exist.", gym_id.val)>>, <<c_gym>>)
                /\ UNCHANGED equipment
           ELSE \E ok \in StoreOutcomes, rowid \in NewRowIds(equipment, MaxEquipmentId) :
                LET a == file_add_equipment(equipment, ok, rowid, name, equipment_type,
                                            quantity.val, gym_id.val)
                    c_add == Write("add_equipment",
                                  <<name, equipment_type, quantity.val, gym_id.val>>, a)
                IN  /\ equipment' = a.table
                    /\ IF a.ret # 0
                       THEN Break(<<Popup("Equipment added successfully!", "")>>,
                                  <<c_gym, c_add>>, "Equipment Menu")
                       ELSE Continue(<<Popup("Failed to add class.", "")>>, <<c_gym, c_add>>)

add_equipment_Cancel == Cancel("Add New Equipment", "Equipment Menu")

----------------------------------------------------------------------------
(* gui.update_equipment *)

update_equipment_Update(values) ==
    /\ window = "Update Equipment"
    /\ UNCHANGED <<members, payments, classes, attends, instructors, gyms, plans,
                   connection, storeFaulty>>
    /\ \E ok_exists \in StoreOutcomes :
       LET id == int(values.ID)
           equipment_id == id.val
           name == values.NAME
           equipment_type == values.TYPE
           quantity == int(values.QUANTITY)
           gym_id == int(values.GYMID)
           c_exists == Call("equipment_exists", <<equipment_id>>,
                            OrFalse(ok_exists, file_equipment_exists(equipment, equipment_id)))
       IN  IF ~id.ok
           THEN /\ Break(<<Popup("Error: {e}", "ValueError")>>, <<>>, "Equipment Menu")
                /\ UNCHANGED equipment
           ELSE IF ~c_exists.ret
           THEN /\ Continue(<<Popup("No equipment found with that ID.", "")>>, <<c_exists>>)
                /\ UNCHANGED equipment
           ELSE IF ~quantity.ok \/ ~gym_id.ok
           THEN /\ Break(<<Popup("Error: {e}", "ValueError")>>, <<c_exists>>, "Equipment Menu")
                /\ UNCHANGED equipment
           ELSE \E ok \in StoreOutcomes :
                LET u == file_update_equipment(equipment, ok, equipment_id, name,
                                               equipment_type, quantity.val, gym_id.val)
                    c_update == Write("update_equipment",
                                     <<equipment_id, name, equipment_type, quantity.val,
                                       gym_id.val>>, u)
                IN  /\ equipment' = u.table
                    /\ Break(<<IF u.ret THEN Popup("Equipment updated successfully!", "")
                                        ELSE Popup("Failed to update equipment.", "")>>,
                             <<c_exists, c_update>>, "Equipment Menu")

update_equipment_Cancel == Cancel("Update Equipment", "Equipment Menu")

----------------------------------------------------------------------------
(* gui.delete_equipment *)

\* a variant that deletes without asking equipment_exists
delete_equipment_Delete_unchecked(values, confirm) ==
    /\ window = "Delete Equipment"
    /\ UNCHANGED <<members, payments, classes, attends, instructors, gyms, plans,
                   connection, storeFaulty>>
    /\ LET id == int(values.ID)
           equipment_id == id.val
           ask == Popup("Are you sure you want to delete this equipment?", confirm)
       IN  IF ~id.ok
           THEN /\ Break(<<Popup("Invalid ID.", "")>>, <<>>, "Equipment Menu")
                /\ UNCHANGED equipment
           ELSE IF confirm # "Yes"
           THEN /\ Break(<<ask>>, <<>>, "Equipment Menu")
                /\ UNCHANGED equipment
           ELSE \E ok \in StoreOutcomes :
                LET d == file_delete_equipment(equipment, ok, equipment_id)
                    c_delete == Write("delete_equipment", <<equipment_id>>, d)
                IN  /\ equipment' = d.table
                    /\ Break(<<ask, IF d.ret THEN Popup("Equipment deleted successfully.", "")
                                             ELSE Popup("Failed to delete equipment.", "")>>,
                             <<c_delete>>, "Equipment Menu")

delete_equipment_Delete(values, confirm) ==
    /\ window = "Delete Equipment"
    /\ UNCHANGED <<members, payments, classes, attends, instructors, gyms, plans,
                   connection, storeFaulty>>
    /\ \E ok_exists \in StoreOutcomes :
       LET id == int(values.ID)
           equipment_id == id.val
           c_exists == Call("equipment_exists", <<equipment_id>>,
                            OrFalse(ok_exists, file_equipment_exists(equipment, equipment_id)))
           ask == Popup("Are you sure you want to delete this equipment?", confirm)
       IN  IF ~id.ok
           THEN /\ Break(<<Popup("Invalid ID.", "")>>, <<>>, "Equipment Menu")
                /\ UNCHANGED equipment
           ELSE IF ~c_exists.ret
           THEN /\ Continue(<<Popup("No equipment found with that ID.", "")>>, <<c_exists>>)
                /\ UNCHANGED equipment
           ELSE IF confirm # "Yes"
           THEN /\ Break(<<ask>>, <<c_exists>>, "Equipment Menu")
                /\ UNCHANGED equipment
           ELSE \E ok \in StoreOutcomes :
                LET d == file_delete_equipment(equipment, ok, equipment_id)
                    c_delete == Write("delete_equipment", <<equipment_id>>, d)
                IN  /\ equipment' = d.table
                    /\ Break(<<ask, IF d.ret THEN Popup("Equipment deleted successfully.", "")
                                             ELSE Popup("Failed to delete equipment.", "")>>,
                             <<c_exists, c_delete>>, "Equipment Menu")

delete_equipment_Cancel == Cancel("Delete Equipment", "Equipment Menu")

----------------------------------------------------------------------------
(* The windows that show rows *)

\* SELECT m.memberID, m.name, m.email, m.age, mp.planId FROM Member m
\* JOIN Payment p ... JOIN MembershipPlan mp ...: one row for each payment
\* whose member and plan exist
file_get_members_and_membership_plan(Member, Payment, MembershipPlan) ==
    [p \in {q \in DOMAIN Payment : /\ Payment[q].memberID \in DOMAIN Member
                                   /\ Payment[q].planID \in MembershipPlan} |->
        <<Payment[p].memberID, Member[Payment[p].memberID].name,
          Member[Payment[p].memberID].email, Member[Payment[p].memberID].age,
          Payment[p].planID>>]

\* SELECT c.classID, ..., COUNT(a.memberID) FROM Class c LEFT JOIN Attends a
\* ... GROUP BY c.classID.  No try: a rejected SELECT raises sqlite3.Error
get_classes_with_attendance(ok, Class, Attends) ==
    IF ok
    THEN Returns({<<i, Class[i].className, Class[i].classType, Class[i].duration,
                    Class[i].classCapacity,
                    Cardinality({k \in DOMAIN Attends : k[2] = i})>> : i \in DOMAIN Class})
    ELSE Raises("sqlite3.Error")

\* SELECT m.memberID, m.name, m.email, m.age FROM Member m INNER JOIN Attends a
\* ... WHERE a.classID = ?.  No try: a rejected SELECT raises sqlite3.Error
get_members_in_class(ok, Member, Attends, class_id) ==
    IF ok
    THEN Returns({<<k[1], Member[k[1]].name, Member[k[1]].email, Member[k[1]].age>> :
                    k \in {a \in DOMAIN Attends : a[2] = class_id /\ a[1] \in DOMAIN Member}})
    ELSE Raises("sqlite3.Error")

\* the window with the sg.Table of `results` is open
Show(title, results, cs) ==
    /\ window' = title
    /\ popups' = <<Popup("sg.Table", results)>>
    /\ calls' = cs
    /\ cli' = cli

\* gui.show_members_and_membership_plan
show_members_and_membership_plan ==
    /\ UNCHANGED <<tables, connection, storeFaulty>>
    /\ \E ok \in StoreOutcomes :
       LET results == execute_query(ok, file_get_members_and_membership_plan(members, payments, plans))
           c_get == Call("get_members_and_membership_plan", <<>>, results)
       IN  IF ~results.some
           THEN Continue(<<Popup("Database query failed or no members found.", "")>>, <<c_get>>)
           ELSE IF DOMAIN results.val = {}
           THEN Continue(<<Popup("No members found.", "")>>, <<c_get>>)
           ELSE Show("Member Information", results.val, <<c_get>>)

\* gui.display_all_classes
display_all_classes ==
    /\ UNCHANGED <<tables, connection, storeFaulty>>
    /\ \E ok \in StoreOutcomes :
       LET results == execute_query(ok, file_get_all_classes(classes))
           c_get == Call("get_all_classes", <<>>, results)
       IN  IF ~results.some \/ results.val = {}
           THEN Continue(<<Popup("No classes found.", "")>>, <<c_get>>)
           ELSE Show("Class Information", results.val, <<c_get>>)

\* gui.list_classes_and_attendance
list_classes_and_attendance ==
    /\ UNCHANGED <<tables, connection, storeFaulty>>
    /\ \E ok \in StoreOutcomes :
       LET results == get_classes_with_attendance(ok, classes, attends)
           c_get == Call("get_classes_with_attendance", <<>>, results.ret)
       IN  IF results.raised # ""
           THEN Uncaught(results.raised, <<>>,
                         <<Raised("get_classes_with_attendance", <<>>, results.raised)>>)
           ELSE IF results.ret = {}
           THEN Continue(<<Popup("No classes or attendance data found.", "")>>, <<c_get>>)
           ELSE Show("Class Attendance", results.ret, <<c_get>>)

\* a variant whose query empties the Equipment table
display_all_equipment_clears ==
    /\ UNCHANGED <<members, payments, classes, attends, instructors, gyms, plans, connection, storeFaulty>>
    /\ equipment' = <<>>
    /\ \E ok \in StoreOutcomes :
       LET results == execute_query(ok, file_get_all_equipment(equipment))
           c_get == Call("get_all_equipment", <<>>, results)
       IN  IF ~results.some \/ results.val = {}
           THEN Continue(<<Popup("No equipment found.", "")>>, <<c_get>>)
           ELSE Show("Equipment Information", results.val, <<c_get>>)

\* gui.display_all_equipment
display_all_equipment ==
    /\ UNCHANGED <<tables, connection, storeFaulty>>
    /\ \E ok \in StoreOutcomes :
       LET results == execute_query(ok, file_get_all_equipment(equipment))
           c_get == Call("get_all_equipment", <<>>, results)
       IN  IF ~results.some \/ results.val = {}
           THEN Continue(<<Popup("No equipment found.", "")>>, <<c_get>>)
           ELSE Show("Equipment Information", results.val, <<c_get>>)

\* gui.find_members_by_class: the Search button
find_members_by_class_Search(values) ==
    /\ window = "Find Members by Class"
    /\ UNCHANGED <<tables, connection, storeFaulty>>
    /\ \E ok \in StoreOutcomes :
       LET class_id == int(values.CLASSID)
           results == get_members_in_class(ok, members, attends, class_id.val)
           c_get == Call("get_members_in_class", <<class_id.val>>, results.ret)
       IN  IF ~class_id.ok
           THEN Continue(<<Popup("Invalid Class ID.", "")>>, <<>>)
           ELSE IF results.raised # ""
           THEN Uncaught(results.raised, <<>>,
                         <<Raised("get_members_in_class", <<class_id.val>>, results.raised)>>)
           ELSE IF results.ret = {}
           THEN Continue(<<Popup("No members found for this class.", "")>>, <<c_get>>)
           ELSE Show("Members in Class", results.ret, <<c_get>>)

find_members_by_class_Cancel == Cancel("Find Members by Class", "Classes Menu")

\* the window a table was shown in is read once and closed
Tables ==
    [w \in {"Member Information", "Class Information", "Class Attendance",
            "Equipment Information", "Members in Class"} |->
        CASE w = "Member Information" -> "Members Menu"
          [] w = "Equipment Information" -> "Equipment Menu"
          [] w = "Members in Class" -> "Find Members by Class"
          [] OTHER -> "Classes Menu"]

CloseTable ==
    /\ window \in DOMAIN Tables
    /\ window' = Tables[window]
    /\ popups' = <<>> /\ calls' = <<>>
    /\ UNCHANGED <<tables, connection, storeFaulty, cli>>

----------------------------------------------------------------------------
(* Menus *)

\* a variant that exits and leaves the connection open
logout_and_exit_without_close ==
    /\ connection' = connection
    /\ window' = "exited"
    /\ popups' = <<>> /\ calls' = <<>>
    /\ UNCHANGED <<tables, storeFaulty, cli>>

\* gui.logout_and_exit
logout_and_exit ==
    /\ connection' = "closed"
    /\ window' = "exited"
    /\ popups' = <<>> /\ calls' = <<>>
    /\ UNCHANGED <<tables, storeFaulty, cli>>

\* a menu button that opens another window
Open(next) ==
    /\ window' = next
    /\ popups' = <<>> /\ calls' = <<>>
    /\ UNCHANGED <<tables, connection, storeFaulty, cli>>

WIN_CLOSED == "WIN_CLOSED"

\* file.connectToDatabase as run_program calls it: one turn of its loop.
\* db_name is what sg.popup_get_text returned, exists is os.path.exists(db_name)
\* and connects is whether sqlite3.connect succeeds
__dataBaseName__ == "XYZGym.sqlite"
Prompt == "Enter database name (e.g., XYZGym.sqlite):"

\* a variant that accepts any name of an existing file
connectToDatabase_any_name(db_name, exists, connects) ==
    /\ window = Prompt
    /\ UNCHANGED <<tables, storeFaulty, cli>>
    /\ IF db_name.cancelled
       \* return None: run_program does nothing more
       THEN /\ window' = "exited"
            /\ popups' = <<Popup("Exiting program.", "")>>
            /\ calls' = <<>>
            /\ connection' = connection
       ELSE IF db_name.text = ""
       THEN /\ Continue(<<Popup("No database name entered. Please provide a valid database name.",
                                "")>>, <<>>)
            /\ connection' = connection
       ELSE IF ~exists
       THEN /\ Continue(<<Popup("The database '{db_name}' does not exist. Please check the database file.",
                                db_name.text)>>, <<>>)
            /\ connection' = connection
       ELSE IF connects
       THEN /\ Break(<<Popup("Connection successful!", "")>>,
                     <<Call("sqlite3.connect", <<db_name.text>>, TRUE)>>,
                     "Gym Management System")
            /\ connection' = "open"
       ELSE /\ Continue(<<Popup("Error: {e}", "sqlite3.Error")>>,
                        <<Raised("sqlite3.connect", <<db_name.text>>, "sqlite3.Error")>>)
            /\ connection' = connection

connectToDatabase(db_name, exists, connects) ==
    /\ window = Prompt
    /\ UNCHANGED <<tables, storeFaulty, cli>>
    /\ IF db_name.cancelled
       \* return None: run_program does nothing more
       THEN /\ window' = "exited"
            /\ popups' = <<Popup("Exiting program.", "")>>
            /\ calls' = <<>>
            /\ connection' = connection
       ELSE IF db_name.text = ""
       THEN /\ Continue(<<Popup("No database name entered. Please provide a valid database name.",
                                "")>>, <<>>)
            /\ connection' = connection
       ELSE IF db_name.text # __dataBaseName__
       THEN /\ Continue(<<Popup("The database '{db_name}' is not valid. Please try again.",
                                db_name.text)>>, <<>>)
            /\ connection' = connection
       ELSE IF ~exists
       THEN /\ Continue(<<Popup("The database '{db_name}' does not exist. Please check the database file.",
                                db_name.text)>>, <<>>)
            /\ connection' = connection
       ELSE IF connects
       THEN /\ Break(<<Popup("Connection successful!", "")>>,
                     <<Call("sqlite3.connect", <<db_name.text>>, TRUE)>>,
                     "Gym Management System")
            /\ connection' = "open"
       ELSE /\ Continue(<<Popup("Error: {e}", "sqlite3.Error")>>,
                        <<Raised("sqlite3.connect", <<db_name.text>>, "sqlite3.Error")>>)
            /\ connection' = connection

\* gui.run_program: one turn of its loop, main_menu() and the dispatch on its event
run_program(event) ==
    /\ window = "Gym Management System"
    /\ IF event \in {"Members Menu", "Classes Menu", "Equipment Menu"} THEN Open(event)
       ELSE IF event = "Logout and Exit" THEN logout_and_exit
       ELSE Open("Gym Management System")

\* gui.members_menu: one turn of its loop
members_menu(event) ==
    /\ window = "Members Menu"
    /\ IF event \in {WIN_CLOSED, "Logout and Exit"} THEN logout_and_exit
       ELSE IF event = "Return to Main Menu" THEN Open("Gym Management System")
       ELSE IF event = "Display All Members" THEN show_members_and_membership_plan
       ELSE /\ event \in {"Add New Member", "Update Member", "Delete Member"}
            /\ Open(event)

\* gui.classes_menu: one turn of its loop
classes_menu(event) ==
    /\ window = "Classes Menu"
    /\ IF event \in {WIN_CLOSED, "Logout and Exit"} THEN logout_and_exit
       ELSE IF event = "Return to Main Menu" THEN Open("Gym Management System")
       ELSE IF event = "Display All Classes" THEN display_all_classes
       ELSE IF event = "List Classes with Attendance" THEN list_classes_and_attendance
       ELSE /\ event \in {"Add New Class", "Update Class", "Delete Class",
                           "Find Members by Class"}
            /\ Open(event)

\* gui.equipment_menu: one turn of its loop
equipment_menu(event) ==
    /\ window = "Equipment Menu"
    /\ IF event \in {WIN_CLOSED, "Logout and Exit"} THEN logout_and_exit
       ELSE IF event = "Return to Main Menu" THEN Open("Gym Management System")
       ELSE IF event = "Display All Equipment" THEN display_all_equipment
       ELSE /\ event \in {"Add New Equipment", "Update Equipment", "Delete Equipment"}
            /\ Open(event)

MainMenuEvents == {"Members Menu", "Classes Menu", "Equipment Menu", "Logout and Exit", WIN_CLOSED}
MembersMenuEvents == {"Display All Members", "Add New Member", "Update Member", "Delete Member", "Return to Main Menu", "Logout and Exit", WIN_CLOSED}
ClassesMenuEvents == {"Display All Classes", "Add New Class", "Update Class", "Delete Class", "List Classes with Attendance", "Find Members by Class", "Return to Main Menu", "Logout and Exit", WIN_CLOSED}
EquipmentMenuEvents == {"Display All Equipment", "Add New Equipment", "Update Equipment", "Delete Equipment", "Return to Main Menu", "Logout and Exit", WIN_CLOSED}

----------------------------------------------------------------------------
(* What the user types.  Two complete member forms, and every form that    *)
(* differs from the first in one field.                                    *)

X == <<120>>

MemberA ==
    [NAME |-> "Ann", EMAIL |-> "ann@xyz.org", PHONE |-> IntText(5551),
     ADDRESS |-> "1 Main St", AGE |-> IntText(15),
     START |-> DateText(2025, 1, 1), END |-> DateText(2025, 6, 1),
     PLANID |-> IntText(1), AMOUNT |-> IntText(50), PAYDATE |-> DateText(2025, 1, 1)]

MemberB ==
    [NAME |-> "Bob", EMAIL |-> "bob@xyz.org", PHONE |-> IntText(5552),
     ADDRESS |-> "2 Oak Ave", AGE |-> IntText(30),
     START |-> DateText(2025, 6, 1), END |-> DateText(2025, 12, 31),
     PLANID |-> IntText(1), AMOUNT |-> IntText(49) \o <<46>> \o IntText(99),
     PAYDATE |-> DateText(2025, 6, 1)]

AddMemberInputs ==
    {MemberA, MemberB}
    \cup {[MemberA EXCEPT !.NAME = x] : x \in {""}}
    \cup {[MemberA EXCEPT !.EMAIL = x] : x \in {"", "bob@xyz.org"}}
    \cup {[MemberA EXCEPT !.PHONE = x] : x \in {<<>>, IntText(0), X}}
    \cup {[MemberA EXCEPT !.ADDRESS = x] : x \in {""}}
    \cup {[MemberA EXCEPT !.AGE = x] : x \in {<<>>, IntText(14), <<32>> \o IntText(15) \o <<32>>, X}}
    \cup {[MemberA EXCEPT !.START = x] : x \in {<<>>, DateText(2025, 6, 1), DateText(2025, 12, 31)}}
    \cup {[MemberA EXCEPT !.END = x] : x \in {<<>>, DateText(2025, 1, 1), DateText(2024, 12, 31), IntText(2025)}}
    \cup {[MemberA EXCEPT !.PLANID = x] : x \in {<<>>, IntText(2), X}}
    \cup {[MemberA EXCEPT !.AMOUNT = x] : x \in {<<>>, IntText(0), X}}
    \cup {[MemberA EXCEPT !.PAYDATE = x] : x \in {<<>>}}

MemberIdTexts == {<<>>, X} \cup {IntText(i) : i \in 1..(MaxMemberId + 1)}

\* the Update Member form: the two complete fillings, one whose email is the
\* other's, one whose end date is before its start date, and bad numbers
UpdateMemberFields ==
    {MemberA, MemberB,
     [MemberA EXCEPT !.EMAIL = "bob@xyz.org"],
     [MemberA EXCEPT !.END = DateText(2024, 12, 31)],
     [MemberA EXCEPT !.AGE = IntText(14)],
     [MemberA EXCEPT !.AGE = X],
     [MemberA EXCEPT !.PHONE = <<>>]}

UpdateMemberInputs ==
    {[ID |-> i, NAME |-> v.NAME, EMAIL |-> v.EMAIL, PHONE |-> v.PHONE, ADDRESS |-> v.ADDRESS,
      AGE |-> v.AGE, START |-> v.START, END |-> v.END] : i \in MemberIdTexts, v \in UpdateMemberFields}

DeleteMemberInputs == {[ID |-> i] : i \in MemberIdTexts}

Answers == {"Yes", "No"}

\* the Add New Class form: two complete fillings and the ones that differ
\* from the first in one field
ClassA ==
    [NAME |-> "Yoga A", TYPE |-> "Yoga", DURATION |-> IntText(60), CAPACITY |-> IntText(20),
     INSTRUCTORID |-> IntText(1), GYMID |-> IntText(1)]

ClassB ==
    [NAME |-> "Zumba B", TYPE |-> "Zumba", DURATION |-> IntText(45), CAPACITY |-> IntText(15),
     INSTRUCTORID |-> IntText(2), GYMID |-> IntText(2)]

AddClassInputs ==
    {ClassA, ClassB}
    \cup {[ClassA EXCEPT !.NAME = x] : x \in {""}}
    \cup {[ClassA EXCEPT !.TYPE = x] : x \in {"", "Pilates"}}
    \cup {[ClassA EXCEPT !.DURATION = x] : x \in {<<>>, IntText(0), <<45>> \o IntText(5), X}}
    \cup {[ClassA EXCEPT !.CAPACITY = x] : x \in {IntText(0), X}}
    \cup {[ClassA EXCEPT !.INSTRUCTORID = x] : x \in {IntText(3), X}}
    \cup {[ClassA EXCEPT !.GYMID = x] : x \in {IntText(3), X}}

ClassIdTexts == {<<>>, X} \cup {IntText(i) : i \in 1..(MaxClassId + 1)}

\* the Update Class form: the complete fillings, an instructor and a gym that
\* do not exist, a type, duration and capacity outside their ranges, bad numbers
UpdateClassFields ==
    {ClassA, ClassB,
     [ClassA EXCEPT !.INSTRUCTORID = IntText(3)],
     [ClassA EXCEPT !.GYMID = IntText(3)],
     [ClassA EXCEPT !.TYPE = "Pilates", !.DURATION = IntText(0), !.CAPACITY = <<45>> \o IntText(5)],
     [ClassA EXCEPT !.DURATION = X]}

UpdateClassInputs ==
    {[ID |-> i, NAME |-> v.NAME, TYPE |-> v.TYPE, DURATION |-> v.DURATION, CAPACITY |-> v.CAPACITY,
      INSTRUCTORID |-> v.INSTRUCTORID, GYMID |-> v.GYMID] : i \in ClassIdTexts, v \in UpdateClassFields}

FindMembersInputs == {[CLASSID |-> t] : t \in ClassIdTexts}

DeleteClassInputs == {[ID |-> i] : i \in ClassIdTexts}

\* what the user answers when asked for the class to move the members to
NewClassIdAnswers == {NoText} \cup {Typed(t) : t \in ClassIdTexts}

EquipmentA ==
    [NAME |-> "Treadmill", TYPE |-> "Cardio", QUANTITY |-> IntText(5), GYMID |-> IntText(1)]

EquipmentB ==
    [NAME |-> "Dumbbells", TYPE |-> "Strength", QUANTITY |-> IntText(10), GYMID |-> IntText(2)]

AddEquipmentInputs ==
    {EquipmentA, EquipmentB}
    \cup {[EquipmentA EXCEPT !.NAME = x] : x \in {""}}
    \cup {[EquipmentA EXCEPT !.TYPE = x] : x \in {"", "Yoga"}}
    \cup {[EquipmentA EXCEPT !.QUANTITY = x] : x \in {<<>>, IntText(0), <<45>> \o IntText(5), X}}
    \cup {[EquipmentA EXCEPT !.GYMID = x] : x \in {IntText(3), X}}

EquipmentIdTexts == {<<>>, X} \cup {IntText(i) : i \in 1..(MaxEquipmentId + 1)}

UpdateEquipmentFields ==
    {EquipmentA, EquipmentB,
     [EquipmentA EXCEPT !.GYMID = IntText(3)],
     [EquipmentA EXCEPT !.TYPE = "Yoga", !.QUANTITY = IntText(0)],
     [EquipmentA EXCEPT !.QUANTITY = X]}

UpdateEquipmentInputs ==
    {[ID |-> i, NAME |-> v.NAME, TYPE |-> v.TYPE, QUANTITY |-> v.QUANTITY, GYMID |-> v.GYMID] : i \in EquipmentIdTexts, v \in UpdateEquipmentFields}

DeleteEquipmentInputs == {[ID |-> i] : i \in EquipmentIdTexts}

----------------------------------------------------------------------------
(* The store as the program finds it.  The rows of a seed satisfy the      *)
(* rules of the forms.                                                     *)

RowA == MemberRow("Ann", "ann@xyz.org", 5551, "1 Main St", 15, DateText(2025, 1, 1), DateText(2025, 6, 1))
RowB == MemberRow("Bob", "bob@xyz.org", 5552, "2 Oak Ave", 30, DateText(2025, 6, 1), DateText(2025, 12, 31))
PayA == PaymentRow(2, 1, 5000, DateText(2025, 1, 1))
PayB == PaymentRow(1, 1, 4999, DateText(2025, 6, 1))

NoMembers == [Member |-> <<>>, Payment |-> <<>>]
OneMember == [Member |-> <<RowB>>, Payment |-> <<PayB>>]
TwoMembers == [Member |-> <<RowB, RowA>>, Payment |-> <<PayB, PayA>>]
MemberSeeds == {NoMembers, OneMember, TwoMembers}

YogaA == ClassRow("Yoga A", "Yoga", 60, 20, 1, 1)
ZumbaB == ClassRow("Zumba B", "Zumba", 45, 15, 2, 2)

NoClasses == [Class |-> <<>>, Attends |-> <<>>]
\* both members attend class 1, nobody attends class 2
OneAttended ==
    [Class |-> <<YogaA, ZumbaB>>,
     Attends |-> (<<1, 1>> :> DateText(2025, 3, 1)) @@ (<<2, 1>> :> DateText(2025, 3, 8))]
\* member 1 attends both classes
BothAttended ==
    [Class |-> <<YogaA, ZumbaB>>,
     Attends |-> (<<1, 1>> :> DateText(2025, 3, 1)) @@ (<<1, 2>> :> DateText(2025, 3, 2))]
\* class 1 only, attended by member 1
OneClass == [Class |-> <<YogaA>>, Attends |-> (<<1, 1>> :> DateText(2025, 3, 1))]
ClassSeeds == {NoClasses, OneClass, OneAttended, BothAttended}

Treadmill == EquipmentRow("Treadmill", "Cardio", 5, 1)
EquipmentSeeds == {<<>>, <<Treadmill>>}

\* gui.py is the program that runs: the command-line program does not
NotRun == [pc |-> "not run"]

\* the store file as the program finds it, faulty or not
Store(faulty) ==
    /\ \E m \in MemberSeeds : members = m.Member /\ payments = m.Payment
    /\ \E c \in ClassSeeds : classes = c.Class /\ attends = c.Attends
    /\ equipment \in EquipmentSeeds
    /\ instructors = {1, 2}
    /\ gyms = {1, 2}
    /\ plans = {1}
    /\ storeFaulty = faulty
    /\ popups = <<>>
    /\ calls = <<>>

\* run_program has connected and the main menu is open
Started(faulty) ==
    /\ Store(faulty)
    /\ window = "Gym Management System"
    /\ connection = "open"
    /\ cli = NotRun

Init == Started(FALSE)

MemberForms ==
    \/ \E values \in AddMemberInputs : add_new_member_Submit(values)
    \/ add_new_member_Cancel
    \/ \E values \in UpdateMemberInputs : update_member_Update(values)
    \/ update_member_Cancel
    \/ \E values \in DeleteMemberInputs, confirm \in Answers : delete_member_Delete(values, confirm)
    \/ delete_member_Cancel
    \/ CloseTable

ClassForms ==
    \/ \E values \in AddClassInputs : add_class_Submit(values)
    \/ add_class_Cancel
    \/ \E values \in UpdateClassInputs : update_class_Update(values)
    \/ update_class_Cancel
    \/ \E values \in DeleteClassInputs, new_class_id \in NewClassIdAnswers : delete_class_Delete(values, new_class_id)
    \/ delete_class_Cancel
    \/ \E values \in FindMembersInputs : find_members_by_class_Search(values)
    \/ find_members_by_class_Cancel
    \/ CloseTable

EquipmentForms ==
    \/ \E values \in AddEquipmentInputs : add_equipment_Submit(values)
    \/ add_equipment_Cancel
    \/ \E values \in UpdateEquipmentInputs : update_equipment_Update(values)
    \/ update_equipment_Cancel
    \/ \E values \in DeleteEquipmentInputs, confirm \in Answers : delete_equipment_Delete(values, confirm)
    \/ delete_equipment_Cancel
    \/ CloseTable

Next ==
    \/ \E event \in MainMenuEvents : run_program(event)
    \/ \E event \in MembersMenuEvents : members_menu(event)
    \/ \E event \in ClassesMenuEvents : classes_menu(event)
    \/ \E event \in EquipmentMenuEvents : equipment_menu(event)
    \/ MemberForms
    \/ ClassForms
    \/ EquipmentForms

\* the whole program
Spec == Init /\ [][Next]_vars

\* a session in which the user works in the Members menu only
InitMembers == Init /\ classes = <<>> /\ equipment = <<>>

NextMembers ==
    \/ \E event \in MainMenuEvents \ {"Classes Menu", "Equipment Menu"} : run_program(event)
    \/ \E event \in MembersMenuEvents : members_menu(event)
    \/ MemberForms

SpecMembers == InitMembers /\ [][NextMembers]_vars

\* a session in which the user works in the Classes menu only
InitClasses == Init /\ members = TwoMembers.Member /\ equipment = <<>>

NextClasses ==
    \/ \E event \in MainMenuEvents \ {"Members Menu", "Equipment Menu"} : run_program(event)
    \/ \E event \in ClassesMenuEvents : classes_menu(event)
    \/ ClassForms

SpecClasses == InitClasses /\ [][NextClasses]_vars

\* a session in which the user works in the Equipment menu only
InitEquipment == Init /\ members = <<>> /\ classes = <<>>

NextEquipment ==
    \/ \E event \in MainMenuEvents \ {"Members Menu", "Classes Menu"} : run_program(event)
    \/ \E event \in EquipmentMenuEvents : equipment_menu(event)
    \/ EquipmentForms

SpecEquipment == InitEquipment /\ [][NextEquipment]_vars

\* a session in which the user only opens the three update forms, on a
\* store that holds rows of every table
InitUpdates ==
    /\ Init
    /\ members = TwoMembers.Member
    /\ classes = OneAttended.Class /\ attends = OneAttended.Attends
    /\ equipment = <<Treadmill>>

NextUpdates ==
    \/ \E event \in MainMenuEvents : run_program(event)
    \/ \E event \in {"Update Member", "Return to Main Menu", "Logout and Exit", WIN_CLOSED} : members_menu(event)
    \/ \E event \in {"Update Class", "Return to Main Menu", "Logout and Exit", WIN_CLOSED} : classes_menu(event)
    \/ \E event \in {"Update Equipment", "Return to Main Menu", "Logout and Exit", WIN_CLOSED} : equipment_menu(event)
    \/ \E values \in UpdateMemberInputs : update_member_Update(values)
    \/ update_member_Cancel
    \/ \E values \in UpdateClassInputs : update_class_Update(values)
    \/ update_class_Cancel
    \/ \E values \in UpdateEquipmentInputs : update_equipment_Update(values)
    \/ update_equipment_Cancel

SpecUpdates == InitUpdates /\ [][NextUpdates]_vars

(* The command-line program of Part 3.  `cli` holds its run: pc is where    *)
(* main is, argv the arguments after the script name, today what DATE('now') *)
(* gives, open the connections open now, opened those opened so far,         *)
(* pending the queries main still has to run, printed the lines on stdout    *)
(* and status the exit status.                                               *)

Line(text, arg) == [text |-> text, arg |-> arg]

\* connectToDatabase of Part 3: the run with one more connection, or the
\* message and sys.exit(1), which main's finally sees
cli_connectToDatabase(run, connects, next) ==
    IF connects
    THEN [run EXCEPT !.open = @ + 1, !.opened = @ + 1, !.pc = next,
                     !.printed = @ \o <<Line("Successfully connected to {__dataBaseName__}", "")>>]
    ELSE [run EXCEPT !.status = 1, !.pc = "finally", !.pending = <<>>,
                     !.printed = @ \o <<Line("ERROR: Database connection unsuccessful. Reason: {e}", "")>>]

\* checkForInteger: str.isdigit() and int(), or the message and sys.exit(1)
checkForInteger(inputToCheck) ==
    IF AllDigits(inputToCheck) THEN [ok |-> TRUE, val |-> DigitsValue(inputToCheck)] ELSE ValueError

\* the class types as text
ClassTypeText(classType) ==
    CASE classType = "Yoga" -> <<89, 111, 103, 97>>
      [] classType = "Zumba" -> <<90, 117, 109, 98, 97>>
      [] classType = "HIIT" -> <<72, 73, 73, 84>>
      [] classType = "Weights" -> <<87, 101, 105, 103, 104, 116, 115>>

\* SQLite's LIKE: % is any text, _ any character, ASCII letters match in either case
Fold(c) == IF c \in 65..90 THEN c + 32 ELSE c

RECURSIVE LIKE(_, _)
LIKE(text, pattern) ==
    IF pattern = <<>> THEN text = <<>>
    ELSE IF Head(pattern) = 37 THEN LIKE(text, Tail(pattern)) \/ (text # <<>> /\ LIKE(Tail(text), pattern))
    ELSE /\ text # <<>>
         /\ Head(pattern) = 95 \/ Fold(Head(pattern)) = Fold(Head(text))
         /\ LIKE(Tail(text), Tail(pattern))

\* DATE('now') and DATE('now', '-1 month') for a day of the month up to the 28th
DateNow(now) == DateText(now[1], now[2], now[3])
DateMonthBefore(now) == IF now[2] = 1 THEN DateText(now[1] - 1, 12, now[3]) ELSE DateText(now[1], now[2] - 1, now[3])

\* SQLite's comparison of two texts
TextLeq(a, b) == a = b \/ StrLess(a, b)

RECURSIVE SumOfAges(_, _)
SumOfAges(Member, ids) ==
    IF ids = {} THEN 0
    ELSE LET m == CHOOSE x \in ids : TRUE IN Member[m].age + SumOfAges(Member, ids \ {m})

\* SELECT AVG(age) ... : one row, NULL when no row is selected; `over` is the
\* rows the WHERE clause selected
AVG(Member, ids) ==
    <<[average_age |-> IF ids = {} THEN None ELSE Some(<<SumOfAges(Member, ids), Cardinality(ids)>>),
       over |-> ids]>>

\* a variant that selects membershipEndDate >= DATE('now')
get_average_age_active_memerbship_geq(Member, now) ==
    AVG(Member, {m \in DOMAIN Member : TextLeq(DateNow(now), Member[m].membershipEndDate)})

get_average_age_active_memerbship(Member, now) ==
    AVG(Member, {m \in DOMAIN Member : StrLess(DateNow(now), Member[m].membershipEndDate)})

get_average_age_expired_memerbship(Member, now) ==
    AVG(Member, {m \in DOMAIN Member : TextLeq(Member[m].membershipEndDate, DateNow(now))})

get_classes_by_instructor(Instructor, Class, instructor_id) ==
    {<<i, Class[c].className, Class[c].classType, Class[c].duration, Class[c].classCapacity>> :
        <<i, c>> \in {ic \in Instructor \X DOMAIN Class : ic[1] = instructor_id /\ Class[ic[2]].instructorID = ic[1]}}

\* GROUP BY i.instructorID ORDER BY class_count DESC LIMIT 3: the rows in any
\* of the orders that ORDER BY allows, cut after the third
class_count(Class, i) == Cardinality({c \in DOMAIN Class : Class[c].instructorID = i})

\* a variant with ORDER BY class_count ASC
get_top_instructors_asc(Instructor, Class) ==
    LET groups == {i \in Instructor : class_count(Class, i) > 0}
        n == Cardinality(groups)
        orders == {o \in [1..n -> groups] :
                     /\ \A j, k \in 1..n : j # k => o[j] # o[k]
                     /\ \A j \in 1..n : j < n => class_count(Class, o[j]) <= class_count(Class, o[j + 1])}
    IN  {[j \in 1..(IF n < 3 THEN n ELSE 3) |-> <<o[j], class_count(Class, o[j])>>] : o \in orders}

get_top_instructors(Instructor, Class) ==
    LET groups == {i \in Instructor : class_count(Class, i) > 0}
        n == Cardinality(groups)
        orders == {o \in [1..n -> groups] :
                     /\ \A j, k \in 1..n : j # k => o[j] # o[k]
                     /\ \A j \in 1..n : j < n => class_count(Class, o[j]) >= class_count(Class, o[j + 1])}
    IN  {[j \in 1..(IF n < 3 THEN n ELSE 3) |-> <<o[j], class_count(Class, o[j])>>] : o \in orders}

get_members_attended_classes(Member, Attends, Class, class_type) ==
    {<<m, Member[m].name>> :
        m \in {x \in DOMAIN Member : \E a \in DOMAIN Attends :
                  /\ a[1] = x
                  /\ a[2] \in DOMAIN Class
                  /\ LIKE(ClassTypeText(Class[a[2]].classType), class_type)}}

members_attended_classes_last_month(Member, Attends, Class, now) ==
    LET recent(m) == {a \in DOMAIN Attends :
                        /\ a[1] = m
                        /\ a[2] \in DOMAIN Class
                        /\ TextLeq(DateMonthBefore(now), Attends[a])}
    IN  {[member_name |-> Member[m].name, total_classes |-> Cardinality(recent(m)),
          classes |-> {a[2] : a \in recent(m)}] :
            m \in {x \in DOMAIN Member : recent(x) # {}}}

\* what the query at the head of `pending` fetches
Fetched(query) ==
    CASE query.fn = "get_classes_by_instructor" -> {get_classes_by_instructor(instructors, classes, query.param)}
      [] query.fn = "get_average_age_active_memerbship" -> {get_average_age_active_memerbship(members, cli.today)}
      [] query.fn = "get_average_age_expired_memerbship" -> {get_average_age_expired_memerbship(members, cli.today)}
      [] query.fn = "get_top_instructors" -> get_top_instructors(instructors, classes)
      [] query.fn = "get_members_attended_classes" -> {get_members_attended_classes(members, attends, classes, query.param)}
      [] query.fn = "members_attended_classes_last_month" -> {members_attended_classes_last_month(members, attends, classes, cli.today)}

\* the rows that a query printed
Rows(fn, results) == Line("rows", [fn |-> fn, results |-> results])

Query(fn, param) == [fn |-> fn, param |-> param]

CliStep(run) ==
    /\ cli' = run
    /\ UNCHANGED <<tables, window, connection, storeFaulty, popups, calls>>

\* main: connection, cursor = connectToDatabase()
main_connect(connects) ==
    /\ cli.pc = "main"
    /\ CliStep(IF connects THEN cli_connectToDatabase(cli, TRUE, "args")
               ELSE [cli_connectToDatabase(cli, FALSE, "args") EXCEPT !.pc = "exited"])

\* main: the arguments and the match statement
main_match ==
    /\ cli.pc = "args"
    /\ LET Exit(text) == [cli EXCEPT !.status = 1, !.pc = "finally", !.printed = @ \o <<Line(text, "")>>]
           Say(text) == [cli EXCEPT !.pc = "finally", !.printed = @ \o <<Line(text, "")>>]
           Run(text, queries) == [cli EXCEPT !.pc = "query", !.pending = queries,
                                             !.printed = IF text = "" THEN @ ELSE @ \o <<Line(text, "")>>]
           taskNumber == checkForInteger(cli.argv[1])
           secondArg == IF Len(cli.argv) > 1 THEN cli.argv[2] ELSE <<>>
       IN  CliStep(
             IF Len(cli.argv) = 0 THEN Exit("ERROR. Please pass a command line argument.")
             ELSE IF ~taskNumber.ok
             THEN Exit("ERROR: The first parameter needs to be a positive integer from 1 to 10.")
             ELSE IF taskNumber.val \in 1..5 THEN [cli EXCEPT !.pc = "finally"]
             ELSE IF taskNumber.val = 6
             THEN IF secondArg # <<>>
                  THEN IF checkForInteger(secondArg).ok
                       THEN Run("", <<Query("get_classes_by_instructor", checkForInteger(secondArg).val)>>)
                       ELSE Exit("ERROR: The first parameter needs to be a positive integer from 1 to 10.")
                  ELSE Say("ERROR: Please provide an instructor ID.")
             ELSE IF taskNumber.val = 7
             THEN Run("Calculating average age for active memerbships...",
                      <<Query("get_average_age_active_memerbship", 0),
                        Query("get_average_age_expired_memerbship", 0)>>)
             ELSE IF taskNumber.val = 8 THEN Run("", <<Query("get_top_instructors", 0)>>)
             ELSE IF taskNumber.val = 9
             THEN IF secondArg # <<>>
                  THEN Run("", <<Query("get_members_attended_classes", secondArg)>>)
                  ELSE Say("ERROR: Please provide an class type.")
             ELSE IF taskNumber.val = 10 THEN Run("", <<Query("members_attended_classes_last_month", 0)>>)
             ELSE Exit("ERROR: The integer passed must be one from 1 to 10."))

\* execute_query and members_attended_classes_last_month: connection, cursor = connectToDatabase()
query_connect(connects) ==
    /\ cli.pc = "query"
    /\ CliStep(cli_connectToDatabase(cli, connects, "fetch"))

\* execute_query and members_attended_classes_last_month: the try statement
\* with its finally, and main up to its next query
query_fetch ==
    /\ cli.pc = "fetch"
    /\ \E ok \in StoreOutcomes : \E results \in Fetched(Head(cli.pending)) :
         LET query == Head(cli.pending)
             \* `if results:` on the list that fetchall returned
             empty == IF query.fn \in {"get_average_age_active_memerbship", "get_average_age_expired_memerbship"}
                      THEN FALSE
                      ELSE IF query.fn = "get_top_instructors" THEN Len(results) = 0
                      ELSE results = {}
             lines == IF query.fn = "members_attended_classes_last_month"
                      THEN IF ok THEN <<Line("Recent Class Attendance:", ""), Rows(query.fn, results)>>
                           ELSE <<Line("Error executing query: {e}", "sqlite3.Error")>>
                      ELSE IF ~ok THEN <<Line("Database error: {e}", "sqlite3.Error")>>
                      ELSE IF empty THEN <<Line("No results found.", "")>>
                      ELSE <<Rows(query.fn, results)>>
             next == IF query.fn = "get_average_age_active_memerbship"
                     THEN <<Line("Calculating average age for expired memerbships...", "")>>
                     ELSE <<>>
         IN  CliStep([cli EXCEPT !.open = @ - 1,
                                 !.pending = Tail(@),
                                 !.pc = IF Len(cli.pending) > 1 THEN "query" ELSE "finally",
                                 !.printed = @ \o lines \o next])

\* main: finally: if connection: connection.close()
main_finally ==
    /\ cli.pc = "finally"
    /\ CliStep([cli EXCEPT !.open = @ - 1, !.pc = "exited"])

\* the command lines, the dates and the stores of the runs
yoga == <<121, 111, 103, 97>>
CliArgvs ==
    {<<>>, <<X>>, <<IntText(0)>>, <<IntText(11)>>, <<<<45, 49>>>>, <<IntText(1)>>, <<IntText(3)>>, <<IntText(4)>>,
     <<IntText(6)>>, <<IntText(6), IntText(1)>>, <<IntText(6), X>>, <<IntText(7)>>, <<IntText(8)>>,
     <<IntText(9)>>, <<IntText(9), yoga>>, <<IntText(9), <<37>>>>, <<IntText(10)>>}
Todays == {<<2025, 3, 20>>, <<2025, 6, 1>>, <<2026, 1, 15>>}

InitCli ==
    /\ \E faulty \in BOOLEAN : Store(faulty)
    /\ window = "none"
    /\ connection = "none"
    /\ \E argv \in CliArgvs, today \in Todays :
         cli = [pc |-> "main", argv |-> argv, today |-> today, open |-> 0, opened |-> 0,
                pending |-> <<>>, printed |-> <<>>, status |-> 0]

NextCli ==
    \/ \E connects \in BOOLEAN : main_connect(connects)
    \/ main_match
    \/ \E connects \in BOOLEAN : query_connect(connects)
    \/ query_fetch
    \/ main_finally

SpecCli == InitCli /\ [][NextCli]_vars

\* the program from its start: the prompt for the database name, the menus
\* and the windows that show rows; every form is opened and cancelled
DbNameAnswers ==
    {[cancelled |-> TRUE, text |-> ""]}
    \cup {[cancelled |-> FALSE, text |-> t] : t \in {"", "XYZGym.sqlite", "xyzgym.sqlite", "Other.sqlite"}}

InitConnect ==
    /\ Store(FALSE)
    /\ window = Prompt
    /\ connection = "none"
    /\ cli = NotRun

NextConnect ==
    \/ \E db_name \in DbNameAnswers, exists \in BOOLEAN, connects \in BOOLEAN : connectToDatabase(db_name, exists, connects)
    \/ \E event \in MainMenuEvents : run_program(event)
    \/ \E event \in MembersMenuEvents : members_menu(event)
    \/ \E event \in ClassesMenuEvents : classes_menu(event)
    \/ \E event \in EquipmentMenuEvents : equipment_menu(event)
    \/ add_new_member_Cancel
    \/ update_member_Cancel
    \/ delete_member_Cancel
    \/ add_class_Cancel
    \/ update_class_Cancel
    \/ delete_class_Cancel
    \/ \E values \in FindMembersInputs : find_members_by_class_Search(values)
    \/ find_members_by_class_Cancel
    \/ add_equipment_Cancel
    \/ update_equipment_Cancel
    \/ delete_equipment_Cancel
    \/ CloseTable

SpecConnect == InitConnect /\ [][NextConnect]_vars

\* a session on a store that may reject any statement: every form is used,
\* each with one or two fillings
FaultyMember == [MemberA EXCEPT !.PLANID = IntText(2)]
FaultyUpdateMember ==
    {[ID |-> IntText(i), NAME |-> MemberA.NAME, EMAIL |-> MemberA.EMAIL, PHONE |-> MemberA.PHONE,
      ADDRESS |-> MemberA.ADDRESS, AGE |-> MemberA.AGE, START |-> MemberA.START,
      END |-> MemberA.END] : i \in {1, 3}}
FaultyUpdateClass ==
    {[ID |-> IntText(1), NAME |-> ClassB.NAME, TYPE |-> ClassB.TYPE, DURATION |-> ClassB.DURATION,
      CAPACITY |-> ClassB.CAPACITY, INSTRUCTORID |-> ClassB.INSTRUCTORID, GYMID |-> ClassB.GYMID]}
FaultyUpdateEquipment ==
    {[ID |-> IntText(1), NAME |-> EquipmentB.NAME, TYPE |-> EquipmentB.TYPE,
      QUANTITY |-> EquipmentB.QUANTITY, GYMID |-> EquipmentB.GYMID]}

InitFaulty ==
    /\ Started(TRUE)
    /\ members = OneMember.Member
    /\ classes = OneClass.Class
    /\ equipment = <<Treadmill>>

NextFaulty ==
    \/ \E event \in MainMenuEvents : run_program(event)
    \/ \E event \in MembersMenuEvents : members_menu(event)
    \/ \E event \in ClassesMenuEvents : classes_menu(event)
    \/ \E event \in EquipmentMenuEvents : equipment_menu(event)
    \/ \E values \in {MemberA, FaultyMember} : add_new_member_Submit(values)
    \/ add_new_member_Cancel
    \/ \E values \in FaultyUpdateMember : update_member_Update(values)
    \/ update_member_Cancel
    \/ delete_member_Delete([ID |-> IntText(1)], "Yes")
    \/ delete_member_Cancel
    \/ add_class_Submit(ClassB)
    \/ add_class_Cancel
    \/ \E values \in FaultyUpdateClass : update_class_Update(values)
    \/ update_class_Cancel
    \/ \E new_class_id \in {NoText, Typed(IntText(2))} : delete_class_Delete([ID |-> IntText(1)], new_class_id)
    \/ delete_class_Cancel
    \/ find_members_by_class_Search([CLASSID |-> IntText(1)])
    \/ find_members_by_class_Cancel
    \/ add_equipment_Submit(EquipmentB)
    \/ add_equipment_Cancel
    \/ \E values \in FaultyUpdateEquipment : update_equipment_Update(values)
    \/ update_equipment_Cancel
    \/ delete_equipment_Delete([ID |-> IntText(1)], "Yes")
    \/ delete_equipment_Cancel
    \/ CloseTable

SpecFaulty == InitFaulty /\ [][NextFaulty]_vars

\* runs of task 8 on stores with up to MaxInstructors instructors and up to
\* MaxTaught classes, each class taught by any of the instructors
MaxInstructors == 4
MaxTaught == 5

TaughtTables ==
    UNION {{[c \in 1..n |-> ClassRow("Class", "Yoga", 60, 20, t[c], 1)] : t \in [1..n -> 1..MaxInstructors]} :
             n \in 0..MaxTaught}

InitTop ==
    /\ members = <<>> /\ payments = <<>> /\ attends = <<>> /\ equipment = <<>>
    /\ classes \in TaughtTables
    /\ instructors \in {1..MaxInstructors, 1..(MaxInstructors - 1)}
    /\ gyms = {1} /\ plans = {1}
    /\ storeFaulty = FALSE
    /\ popups = <<>> /\ calls = <<>>
    /\ window = "none" /\ connection = "none"
    /\ cli = [pc |-> "main", argv |-> <<IntText(8)>>, today |-> <<2025, 6, 1>>, open |-> 0, opened |-> 0,
              pending |-> <<>>, printed |-> <<>>, status |-> 0]

SpecTop == InitTop /\ [][NextCli]_vars

\* sessions in the Delete Member and Delete Equipment forms, with every ID
\* text and every answer to sg.popup_yes_no (None when its window is closed)
YesNoAnswers == {"Yes", "No", "None"}

NextDeletes ==
    \/ \E event \in MainMenuEvents : run_program(event)
    \/ \E event \in {"Delete Member", "Return to Main Menu", "Logout and Exit", WIN_CLOSED} : members_menu(event)
    \/ \E event \in {"Return to Main Menu", "Logout and Exit", WIN_CLOSED} : classes_menu(event)
    \/ \E event \in {"Delete Equipment", "Return to Main Menu", "Logout and Exit", WIN_CLOSED} : equipment_menu(event)
    \/ \E values \in DeleteMemberInputs, confirm \in YesNoAnswers : delete_member_Delete(values, confirm)
    \/ delete_member_Cancel
    \/ \E values \in DeleteEquipmentInputs, confirm \in YesNoAnswers : delete_equipment_Delete(values, confirm)
    \/ delete_equipment_Cancel

InitDeletes == Started(TRUE)

SpecDeletes == InitDeletes /\ [][NextDeletes]_vars

\* a run of either program on a store that may reject any statement
SpecReads == (InitFaulty \/ InitCli) /\ [][NextFaulty \/ NextCli]_vars

----------------------------------------------------------------------------
(* Properties *)

\* the positions of the calls of `fn` in a handler's calls
Called(cs, fn) == {i \in 1..Len(cs) : cs[i].fn = fn}
Shown(ps, text) == \E i \in 1..Len(ps) : ps[i].text = text

\* C1: in the Delete Class form a class with no Attends row is deleted; a
\* class with attendees is deleted only after move_members returned true; when
\* move_members did not return true the Class and Attends tables are as they
\* were; and once a class with attendees is deleted no Attends row carries
\* its ID.
C1_DeleteClassStep ==
    (window = "Delete Class" /\ calls' # <<>> /\ calls'[1].ret) =>
        LET id == calls'[1].args[1]
            hasMembers == \E k \in DOMAIN attends : k[2] = id
            movedOk == \E i \in Called(calls', "move_members") : calls'[i].ret
            deleted == id \notin DOMAIN classes'
        IN  /\ ~hasMembers => deleted
            /\ (hasMembers /\ deleted) => movedOk
            /\ (hasMembers /\ ~movedOk) => (classes' = classes /\ attends' = attends)
            /\ (hasMembers /\ deleted) => \A k \in DOMAIN attends' : k[2] # id
C1_DeleteClassMovesAttendees == [][C1_DeleteClassStep]_vars

\* C2: in the Delete Class form, when the class the members are to be moved
\* to is no row of Class, or is the class being deleted, nothing is deleted
\* and no Attends row changes.
C2_TargetMustExistStep ==
    window = "Delete Class" =>
        \A i \in Called(calls', "move_members") :
            LET old == calls'[i].args[1]
                new == calls'[i].args[2]
            IN  (new \notin DOMAIN classes \/ new = old)
                    => (classes' = classes /\ attends' = attends)
C2_MoveTargetMustExist == [][C2_TargetMustExistStep]_vars

\* C3: a submit of the Add New Member form calls add_member or add_payment,
\* or changes the Member or Payment table, only with an email that no stored
\* member has.
C3_DuplicateEmailStep ==
    (/\ window = "Add New Member"
     /\ \/ Called(calls', "add_member") # {}
        \/ Called(calls', "add_payment") # {}
        \/ members' # members
        \/ payments' # payments)
    => \E i \in Called(calls', "add_member") :
          \A j \in DOMAIN members : members[j].email # calls'[i].args[2]
C3_DuplicateEmailRejected == [][C3_DuplicateEmailStep]_vars

C3_Witness ==
    /\ window = "Add New Member"
    /\ Shown(popups, "This email is already associated with an existing member.")
    /\ Len(calls) = 1 /\ calls[1].fn = "check_email_exists" /\ calls[1].ret
    /\ file_check_email_exists(members, calls[1].args[1])

\* C4: no stored member is younger than 15, and neither form calls
\* add_member or update_member with an age below 15.
C4_AgeAtLeast15 ==
    /\ \A i \in DOMAIN members : members[i].age >= 15
    /\ \A i \in Called(calls, "add_member") : calls[i].args[5] >= 15
    /\ \A i \in Called(calls, "update_member") : calls[i].args[6] >= 15

C4_Witness ==
    /\ window = "Update Member"
    /\ Shown(popups, "Age must be 15 or older.")
    /\ Called(calls, "update_member") = {}
    /\ \E i \in DOMAIN members : members[i].age = 15

\* C5: a submit of the Add New Member form calls add_member or add_payment,
\* or changes the Member or Payment table, only with an end date strictly
\* after the start date.
C5_DateOrderStep ==
    (/\ window = "Add New Member"
     /\ \/ Called(calls', "add_member") # {}
        \/ Called(calls', "add_payment") # {}
        \/ members' # members
        \/ payments' # payments)
    => \E i \in Called(calls', "add_member") :
          /\ StrLess(calls'[i].args[6], calls'[i].args[7])
          /\ calls'[i].args[6] # calls'[i].args[7]
C5_EndAfterStartOnAdd == [][C5_DateOrderStep]_vars

C5_Witness ==
    /\ window = "Add New Member"
    /\ Shown(popups, "End date must be later than start date.")
    /\ calls = <<>>

\* C6: every stored member's membershipEndDate is strictly after its
\* membershipStartDate.
C6_EndAfterStartAlways ==
    \A i \in DOMAIN members :
        StrLess(members[i].membershipStartDate, members[i].membershipEndDate)

\* C7: member_exists(id) is true after add_member returned id and false after
\* delete_member(id) returned true, and it changes for no id other than the
\* one add_member returned or delete_member was given.
C7_ExistsStep ==
    /\ \A i \in Called(calls', "add_member") :
          calls'[i].ret # 0 => file_member_exists(members', calls'[i].ret)
    /\ \A i \in Called(calls', "delete_member") :
          calls'[i].ret => ~file_member_exists(members', calls'[i].args[1])
    /\ \A id \in 1..(MaxMemberId + 1) :
          file_member_exists(members', id) # file_member_exists(members, id)
              => \/ \E i \in Called(calls', "add_member") : calls'[i].ret = id
                 \/ \E i \in Called(calls', "delete_member") : calls'[i].args[1] = id
C7_ExistsAfterAddNotAfterDelete == [][C7_ExistsStep]_vars

C7_Witness ==
    /\ \E i \in Called(calls, "delete_member") :
          calls[i].ret /\ ~file_member_exists(members, calls[i].args[1])
    /\ members # <<>>

\* C8: after update_class, update_member or update_equipment returned true
\* for an existing id, the row of that id holds exactly the values given and
\* every other row of the table is as it was.
C8_FullReplaceStep ==
    /\ \A i \in Called(calls', "update_class") :
          LET a == calls'[i].args
          IN  (calls'[i].ret /\ a[1] \in DOMAIN classes) =>
                  /\ {r \in file_get_all_classes(classes') : r[1] = a[1]} = {a}
                  /\ {r \in file_get_all_classes(classes') : r[1] # a[1]}
                       = {r \in file_get_all_classes(classes) : r[1] # a[1]}
    /\ \A i \in Called(calls', "update_member") :
          LET a == calls'[i].args
          IN  (calls'[i].ret /\ a[1] \in DOMAIN members) =>
                  /\ DOMAIN members' = DOMAIN members
                  /\ members'[a[1]] = MemberRow(a[2], a[3], a[4], a[5], a[6], a[7], a[8])
                  /\ \A j \in DOMAIN members \ {a[1]} : members'[j] = members[j]
    /\ \A i \in Called(calls', "update_equipment") :
          LET a == calls'[i].args
          IN  (calls'[i].ret /\ a[1] \in DOMAIN equipment) =>
                  /\ {r \in file_get_all_equipment(equipment') : r[1] = a[1]} = {a}
                  /\ {r \in file_get_all_equipment(equipment') : r[1] # a[1]}
                       = {r \in file_get_all_equipment(equipment) : r[1] # a[1]}
C8_UpdateIsFullReplace == [][C8_FullReplaceStep]_vars

C8_Witness ==
    /\ \E i \in Called(calls, "update_class") :
          /\ calls[i].ret
          /\ classes[calls[i].args[1]] = ZumbaB
          /\ \E j \in DOMAIN classes : j # calls[i].args[1] /\ classes[j] = ZumbaB
    /\ \E j \in DOMAIN members : members[j] # RowA /\ members[j] # RowB
    /\ \E j \in DOMAIN equipment : equipment[j] # Treadmill

\* C9: add_class returns an ID that no row of Class holds, and get_all_classes
\* then returns the rows it returned before and one more: that ID with the
\* name, type, duration, capacity, instructorID and gymID given.
C9_AddClassStep ==
    \A i \in Called(calls', "add_class") :
        /\ ~storeFaulty => calls'[i].ret # 0
        /\ calls'[i].ret # 0 =>
              /\ calls'[i].ret \in Nat
              /\ calls'[i].ret \notin DOMAIN classes
              /\ file_get_all_classes(classes')
                   = file_get_all_classes(classes) \cup {<<calls'[i].ret>> \o calls'[i].args}
              /\ <<calls'[i].ret>> \o calls'[i].args \notin file_get_all_classes(classes)
C9_AddClassAddsExactlyOneRow == [][C9_AddClassStep]_vars

C9_Witness ==
    /\ \E i \in Called(calls, "add_class") :
          file_get_all_classes(classes) = {<<calls[i].ret, "Yoga A", "Yoga", 60, 20, 1, 1>>}
    /\ \A i \in DOMAIN classes : classes[i].instructorID = 1 /\ classes[i].gymID = 1

\* C10: every Class row's instructorID is an Instructor and its gymID a gym,
\* every Equipment row's gymID is a gym and every Payment row's planID a
\* MembershipPlan.
C10_ReferencesExist ==
    /\ \A i \in DOMAIN classes :
          classes[i].instructorID \in instructors /\ classes[i].gymID \in gyms
    /\ \A i \in DOMAIN equipment : equipment[i].gymID \in gyms
    /\ \A i \in DOMAIN payments : payments[i].planID \in plans

\* C11: on a store that may reject any statement, no call of a function of
\* file.py ends in an exception and the process never ends with a traceback.
C11_StoreFailureNeverCrashes ==
    /\ \A i \in 1..Len(calls) : calls[i].raised = ""
    /\ ~Shown(popups, "Traceback (most recent call last):")
    /\ window # "crashed"

\* the functions of file.py that write, and whether what one returned is true
\* in Python (an insert returns the new key, or False, which equals 0)
WriteFunctions ==
    {"add_member", "add_payment", "update_member", "delete_member", "add_class",
     "update_class", "delete_class", "move_members", "add_equipment",
     "update_equipment", "delete_equipment"}
Truthy(c) == IF c.fn \in {"add_member", "add_class", "add_equipment"} THEN c.ret # 0 ELSE c.ret

\* C12: a write that returns a true value has committed; a write the store
\* rejected returns False, leaves the table it writes as it was, and leaves
\* the connection open and the process running.
C12_WriteStep ==
    \A i \in 1..Len(calls') :
        calls'[i].fn \in WriteFunctions =>
            LET c == calls'[i]
            IN  /\ Truthy(c) => c.committed
                /\ ~c.committed =>
                      /\ ~Truthy(c)
                      /\ connection' = "open" /\ window' # "crashed"
                      /\ c.fn \in {"add_member", "update_member", "delete_member"}
                            => members' = members
                      /\ c.fn = "add_payment" => payments' = payments
                      /\ c.fn \in {"add_class", "update_class", "delete_class"}
                            => classes' = classes
                      /\ c.fn = "move_members" => attends' = attends
                      /\ c.fn \in {"add_equipment", "update_equipment", "delete_equipment"}
                            => equipment' = equipment
C12_WritesCommitOrLeaveUnchanged == [][C12_WriteStep]_vars

\* an update committed on the connection on which an add_payment was rejected
\* earlier (member 2 has no payment)
C12_Witness ==
    /\ \E i \in 1..Len(calls) : calls[i].fn = "update_member" /\ calls[i].committed
    /\ \E m \in DOMAIN members : \A q \in DOMAIN payments : payments[q].memberID # m

\* the answers to the prompt that connectToDatabase accepts
ValidName(db_name, exists) == ~db_name.cancelled /\ db_name.text = __dataBaseName__ /\ exists

\* C13: connectToDatabase of the GUI attempts to open the store only when the
\* typed name is non-empty, equals XYZGym.sqlite and the file exists; an empty
\* name, another name or a missing file shows an error and prompts again; a
\* connection is returned only after a valid name; on cancel there is no
\* connection and no menu is shown
C13_Step ==
    \A db_name \in DbNameAnswers, exists \in BOOLEAN, connects \in BOOLEAN :
        connectToDatabase(db_name, exists, connects) =>
            /\ Called(calls', "sqlite3.connect") # {} => ValidName(db_name, exists)
            /\ connection' = "open" => ValidName(db_name, exists)
            /\ (~db_name.cancelled /\ ~ValidName(db_name, exists)) =>
                  /\ Len(popups') = 1
                  /\ ~Shown(popups', "Connection successful!")
                  /\ window' = Prompt
                  /\ connection' = "none"
            /\ db_name.cancelled => (connection' = "none" /\ window' = "exited")

C13_ConnectOnlyOnValidName ==
    /\ [][C13_Step]_vars
    /\ [](window \notin {Prompt, "exited", "crashed"} => connection = "open")
    /\ [][window = "exited" => window' = "exited"]_vars

\* the file exists under the fixed name and the store opens: the main menu is shown
C13_Witness ==
    /\ Shown(popups, "Connection successful!")
    /\ connection = "open"
    /\ window = "Gym Management System"

\* the events on which a menu logs out
LogsOut(event) ==
    \/ run_program(event) /\ event = "Logout and Exit"
    \/ members_menu(event) /\ event \in {WIN_CLOSED, "Logout and Exit"}
    \/ classes_menu(event) /\ event \in {WIN_CLOSED, "Logout and Exit"}
    \/ equipment_menu(event) /\ event \in {WIN_CLOSED, "Logout and Exit"}

\* C14: logging out from the main menu or from any sub-menu closes the
\* connection and then ends the process; the connection is closed exactly
\* once per open, and no repository call is issued after the close
C14_Step ==
    /\ \A event \in MainMenuEvents \cup MembersMenuEvents \cup ClassesMenuEvents \cup EquipmentMenuEvents :
          LogsOut(event) => (connection = "open" /\ connection' = "closed" /\ window' = "exited")
    /\ connection' # connection =>
          \/ connection = "none" /\ connection' = "open"
          \/ connection = "open" /\ connection' = "closed"
    /\ connection = "closed" => (window' = "exited" /\ calls' = <<>> /\ connection' = "closed")
    /\ calls' # <<>> => (connection' = "open" \/ Called(calls', "sqlite3.connect") # {})

C14_LogoutClosesOnce == [][C14_Step]_vars

\* the process has ended by a logout
C14_Witness == connection = "closed" /\ window = "exited"

\* the command lines the dispatcher has to refuse
TasksWithSecondArgument == {3, 4, 6, 9}
InvalidArguments(argv) ==
    \/ Len(argv) = 0
    \/ ~AllDigits(argv[1])
    \/ DigitsValue(argv[1]) \notin 1..10
    \/ DigitsValue(argv[1]) \in TasksWithSecondArgument /\ Len(argv) < 2
Diagnosed(printed) == \E i \in 1..Len(printed) : SubSeq(printed[i].text, 1, 5) = "ERROR"

\* C15: the command-line dispatcher ends with a non-zero exit status and a
\* diagnostic message when the task argument is missing, is not an integer or
\* is outside 1..10, and when the second argument of task 3, 4, 6 or 9 is missing
C15_InvalidArgumentsExitNonZero ==
    (cli.pc = "exited" /\ InvalidArguments(cli.argv)) =>
        (cli.status # 0 /\ Diagnosed(cli.printed))

\* the members that a printed average-age report ranged over
Counted(fn) ==
    UNION {cli.printed[i].arg.results[1].over :
             i \in {j \in 1..Len(cli.printed) : cli.printed[j].text = "rows" /\ cli.printed[j].arg.fn = fn}}
Reported(fn) == \E i \in 1..Len(cli.printed) : cli.printed[i].text = "rows" /\ cli.printed[i].arg.fn = fn

\* C16: the two average-age reports partition the members: every member with
\* an end date is counted in exactly one of the active report (end date after
\* today) and the expired report (end date today or before), and a member
\* whose end date is today is counted as expired and not as active
C16_AverageAgeReportsPartition ==
    (Reported("get_average_age_active_memerbship") /\ Reported("get_average_age_expired_memerbship")) =>
        LET active == Counted("get_average_age_active_memerbship")
            expired == Counted("get_average_age_expired_memerbship")
            today == DateNow(cli.today)
        IN  /\ active \cap expired = {}
            /\ active \cup expired = DOMAIN members
            /\ \A m \in DOMAIN members :
                  /\ m \in active <=> StrLess(today, members[m].membershipEndDate)
                  /\ members[m].membershipEndDate = today => (m \in expired /\ m \notin active)

\* both reports are printed on the day one membership ends while another is still running
C16_Witness ==
    /\ Reported("get_average_age_active_memerbship")
    /\ Reported("get_average_age_expired_memerbship")
    /\ \E m \in DOMAIN members : members[m].membershipEndDate = DateNow(cli.today)
    /\ Counted("get_average_age_active_memerbship") # {}

\* C20: the connection to the store is opened once per run of either program:
\* at most one connection is open at any time and no second connection is
\* opened after the first
C20_OneConnectionPerRun ==
    /\ cli.pc # "not run" => (cli.open <= 1 /\ cli.opened <= 1)
    /\ cli.pc = "not run" =>
          /\ Cardinality(Called(calls, "sqlite3.connect")) <= 1
          /\ \A i \in Called(calls, "sqlite3.connect") : window = Prompt \/ calls[i].raised = ""

\* the check that the forms make before each update and delete
ExistsCheck(fn) ==
    CASE fn \in {"update_member", "delete_member"} -> "member_exists"
      [] fn \in {"update_class", "delete_class"} -> "class_exists"
      [] fn \in {"update_equipment", "delete_equipment"} -> "equipment_exists"

\* C17: every update and delete of a member, class or equipment row made by
\* the GUI comes after the matching exists check on the same ID, and no
\* update or delete is called for an ID whose check returned false
C17_Step ==
    \A i \in 1..Len(calls') :
        calls'[i].fn \in {"update_member", "delete_member", "update_class", "delete_class",
                          "update_equipment", "delete_equipment"} =>
            \E j \in 1..(i - 1) :
                /\ calls'[j].fn = ExistsCheck(calls'[i].fn)
                /\ calls'[j].args[1] = calls'[i].args[1]
                /\ calls'[j].ret

C17_ExistsCheckBeforeUpdateAndDelete == [][C17_Step]_vars

\* a class that exists was deleted after its attendees were moved
C17_Witness ==
    /\ Called(calls, "class_exists") # {}
    /\ Called(calls, "move_members") # {}
    /\ Called(calls, "delete_class") # {}

\* a numeric field of the form is empty or is not a number
BadNumber(values, fields) == \E f \in fields : ~int(values[f]).ok

\* the handler showed a message, wrote nothing and the form is still open
BackInTheForm ==
    /\ popups' # <<>>
    /\ ~Shown(popups', "Traceback (most recent call last):")
    /\ \A i \in 1..Len(calls') : calls'[i].fn \notin WriteFunctions
    /\ tables' = tables
    /\ window' = window
    /\ connection' = "open"

\* C18: in every form a numeric field that is empty or not a number gives a
\* readable error message, no mutating repository call, and the same form
\* stays open with the process running
C18_Step ==
    /\ \A values \in AddClassInputs :
          (add_class_Submit(values) /\ BadNumber(values, {"DURATION", "CAPACITY", "INSTRUCTORID", "GYMID"}))
              => BackInTheForm
    /\ \A values \in UpdateClassInputs :
          (update_class_Update(values) /\ BadNumber(values, {"ID", "DURATION", "CAPACITY", "INSTRUCTORID", "GYMID"}))
              => BackInTheForm
    /\ \A values \in DeleteClassInputs, new_class_id \in NewClassIdAnswers :
          (delete_class_Delete(values, new_class_id) /\ BadNumber(values, {"ID"}))
              => BackInTheForm

C18_BadNumberKeepsTheFormOpen == [][C18_Step]_vars

\* the rows a step added to a table
Added(before, after) == DOMAIN after \ DOMAIN before

\* the key a call returned; add_payment returns a boolean, which is no key
KeyReturned(c) == IF c.fn \in {"add_member", "add_class", "add_equipment"} THEN c.ret ELSE 0

\* an insert into a table with a number as return value: the key of the new
\* row when a row was added, and False (0) only when none was
ReturnsNewKey(c, before, after) ==
    /\ Added(before, after) # {} => KeyReturned(c) \in Added(before, after)
    /\ ~Truthy(c) => after = before

\* C19 as amended: add_member, add_class and add_equipment return the key of
\* the row they inserted and False only when the insert failed; add_payment
\* returns True when it inserted a row and False only when the insert failed
C19_Step ==
    \A i \in 1..Len(calls') :
        LET c == calls'[i]
        IN  /\ c.fn = "add_member" => ReturnsNewKey(c, members, members')
            /\ c.fn = "add_class" => ReturnsNewKey(c, classes, classes')
            /\ c.fn = "add_equipment" => ReturnsNewKey(c, equipment, equipment')
            /\ c.fn = "add_payment" =>
                  /\ Added(payments, payments') # {} => c.ret
                  /\ ~c.ret => payments' = payments

C19_OriginalStep ==
    \A i \in 1..Len(calls') :
        LET c == calls'[i]
        IN  /\ c.fn = "add_member" => ReturnsNewKey(c, members, members')
            /\ c.fn = "add_class" => ReturnsNewKey(c, classes, classes')
            /\ c.fn = "add_equipment" => ReturnsNewKey(c, equipment, equipment')
            /\ c.fn = "add_payment" => ReturnsNewKey(c, payments, payments')

ReadFunctions ==
    {"get_members_and_membership_plan", "get_all_classes", "get_all_equipment",
     "get_classes_with_attendance", "get_members_in_class", "class_has_members",
     "check_email_exists", "membership_plan_exists", "get_all_membership_plan_ids",
     "member_exists", "class_exists", "equipment_exists", "instructor_exists", "gym_exists"}

\* C21: the report queries of the command-line program and the read
\* operations of the GUI (get_all_*, get_members_in_class,
\* get_classes_with_attendance, every *_exists) leave every table unchanged
C21_Step ==
    /\ cli.pc # "not run" => tables' = tables
    /\ (\A i \in 1..Len(calls') : calls'[i].fn \in ReadFunctions) => tables' = tables

C21_ReadsLeaveTablesUnchanged == [][C21_Step]_vars

\* a report was printed, or a window shows the rows a query returned
C21_Witness ==
    \/ cli.pc = "exited" /\ Reported("get_top_instructors")
    \/ cli.pc = "not run" /\ window = "Members in Class" /\ Called(calls, "get_members_in_class") # {}

\* the rows of the top-instructors report that was printed, none when it printed "No results found."
TopRows ==
    LET lines == {j \in 1..Len(cli.printed) : cli.printed[j].text = "rows"}
    IN  IF lines = {} THEN <<>> ELSE cli.printed[CHOOSE j \in lines : TRUE].arg.results
Taught(i) == Cardinality({c \in DOMAIN classes : classes[c].instructorID = i})

\* C22: the top-instructors report has at most 3 rows in non-increasing order
\* of class count; each row is an instructor who teaches at least one class
\* with the exact number of Class rows that reference that instructor; and no
\* instructor outside the report has a larger class count than one inside it
C22_TopInstructors ==
    (cli.pc = "exited" /\ cli.argv = <<IntText(8)>> /\ cli.opened = 2) =>
        LET rows == TopRows
        IN  /\ Len(rows) <= 3
            /\ \A j, k \in 1..Len(rows) : j < k => (rows[j][2] >= rows[k][2] /\ rows[j][1] # rows[k][1])
            /\ \A j \in 1..Len(rows) :
                  /\ rows[j][1] \in instructors
                  /\ rows[j][2] = Taught(rows[j][1])
                  /\ rows[j][2] >= 1
            /\ \A i \in instructors \ {rows[j][1] : j \in 1..Len(rows)} :
                  \A j \in 1..Len(rows) : Taught(i) <= rows[j][2]

\* four instructors teach: three rows are printed, the first with more classes than the last
C22_Witness ==
    /\ cli.pc = "exited"
    /\ Len(TopRows) = 3
    /\ TopRows[1][2] > TopRows[3][2]
    /\ Cardinality({i \in instructors : Taught(i) > 0}) > 3

\* C23: member email stays unique across all members after any sequence of
\* Add New Member and Update Member operations: an update that gives a member
\* the email of another member is rejected and changes nothing
C23_EmailUnique ==
    \A m, n \in DOMAIN members : m # n => members[m].email # members[n].email

\* C24: after any sequence of Add New Class and Update Class operations every
\* Class row has classType in {Yoga, Zumba, HIIT, Weights}, duration > 0 and
\* classCapacity > 0: the rules are evaluated before update_class as well as
\* before add_class
C24_ClassRowsValid ==
    \A c \in DOMAIN classes :
        /\ classes[c].classType \in ClassTypes
        /\ classes[c].duration > 0
        /\ classes[c].classCapacity > 0

\* C25: after any sequence of Add New Equipment and Update Equipment
\* operations every Equipment row has its type in {Cardio, Strength,
\* Flexibility, Recovery} and quantity > 0: the rules checked before
\* add_equipment are also checked before update_equipment
C25_EquipmentRowsValid ==
    \A e \in DOMAIN equipment :
        /\ equipment[e].classType \in EquipmentTypes
        /\ equipment[e].quantity > 0

\* C26: Add New Member is all-or-nothing: after any submit either both the
\* Member row and its Payment row have been inserted or neither has, so no
\* member created by the form is without its first payment
C26_Step ==
    /\ Added(members, members') # {} <=> Added(payments, payments') # {}
    /\ \A m \in Added(members, members') : \E q \in Added(payments, payments') : payments'[q].memberID = m

C26_AddMemberAllOrNothing == [][C26_Step]_vars

\* C27: in the Delete Member and Delete Equipment forms the row is deleted
\* only if the ID exists and the answer to the confirmation is Yes; for an ID
\* that does not exist or is not an integer, and for any other answer, the
\* delete function is not called and the store is unchanged
C27_Step ==
    /\ \A values \in DeleteMemberInputs, confirm \in YesNoAnswers :
          delete_member_Delete(values, confirm) =>
              IF int(values.ID).ok /\ int(values.ID).val \in DOMAIN members /\ confirm = "Yes"
              THEN \A m \in DOMAIN members \ DOMAIN members' : m = int(values.ID).val
              ELSE Called(calls', "delete_member") = {} /\ tables' = tables
    /\ \A values \in DeleteEquipmentInputs, confirm \in YesNoAnswers :
          delete_equipment_Delete(values, confirm) =>
              IF int(values.ID).ok /\ int(values.ID).val \in DOMAIN equipment /\ confirm = "Yes"
              THEN \A e \in DOMAIN equipment \ DOMAIN equipment' : e = int(values.ID).val
              ELSE Called(calls', "delete_equipment") = {} /\ tables' = tables

C27_DeleteOnlyWhenExistsAndYes == [][C27_Step]_vars

\* a member was deleted after the answer Yes
C27_Witness ==
    /\ Shown(popups, "Member deleted successfully.")
    /\ Called(calls, "delete_member") # {}

\* every Payment row and every Attends row names a member of the Member table
MemberReferencesHold(Member, Payment, Attends) ==
    /\ \A q \in DOMAIN Payment : Payment[q].memberID \in DOMAIN Member
    /\ \A a \in DOMAIN Attends : a[1] \in DOMAIN Member

\* C28: each Payment row and each Attends row references a member that still
\* exists: a step from a store where that holds leads to a store where it
\* holds, and Delete Member leaves no Payment or Attends row with the deleted
\* memberID
C28_Step ==
    /\ MemberReferencesHold(members, payments, attends) => MemberReferencesHold(members', payments', attends')
    /\ \A m \in DOMAIN members \ DOMAIN members' :
          /\ \A q \in DOMAIN payments' : payments'[q].memberID # m
          /\ \A a \in DOMAIN attends' : a[1] # m

C28_MemberReferencesKept == [][C28_Step]_vars

\* C29: closing the window of any menu ends the session as logout does: from
\* the main menu and from the Members, Classes and Equipment menus a
\* window-closed event closes the connection and ends the process
C29_Step ==
    (\/ run_program(WIN_CLOSED)
     \/ members_menu(WIN_CLOSED)
     \/ classes_menu(WIN_CLOSED)
     \/ equipment_menu(WIN_CLOSED))
        => (connection' = "closed" /\ window' = "exited")

C29_ClosedMenuEndsSession == [][C29_Step]_vars

\* the add, update and delete forms
Forms ==
    {"Add New Member", "Update Member", "Delete Member", "Add New Class", "Update Class",
     "Delete Class", "Add New Equipment", "Update Equipment", "Delete Equipment"}

\* Cancel, or the window closed, in one of the forms
Cancelled ==
    \/ add_new_member_Cancel \/ update_member_Cancel \/ delete_member_Cancel
    \/ add_class_Cancel \/ update_class_Cancel \/ delete_class_Cancel
    \/ add_equipment_Cancel \/ update_equipment_Cancel \/ delete_equipment_Cancel

\* C30: cancelling or closing an add, update or delete form before a submit
\* passed validation issues no mutating repository call: the store is as it
\* was when the form was opened and the connection stays open
C30_Step ==
    /\ Cancelled =>
          /\ calls' = <<>>
          /\ tables' = tables
          /\ connection' = "open"
          /\ window' \in {"Members Menu", "Classes Menu", "Equipment Menu"}
    /\ (window \in Forms /\ \A i \in 1..Len(calls') : calls'[i].fn \notin WriteFunctions) => tables' = tables

C30_CancelLeavesStoreUnchanged == [][C30_Step]_vars

\* a submit was turned down and the form is still open, to be cancelled
C30_Witness ==
    /\ window \in Forms
    /\ popups # <<>>
    /\ calls # <<>>
    /\ \A i \in 1..Len(calls) : calls[i].fn \notin WriteFunctions
    /\ connection = "open"


====
